---------------------------- MODULE Spec2Model ----------------------------
(***************************************************************************)
(* Budget Nikal: the budget computation and credit-card-cycle engine.      *)
(*                                                                         *)
(* The server (server/routes.ts over server/storage.ts) is modelled as a   *)
(* state machine over its tables; every request handler is one action.     *)
(* Money is an integer number of minor units: every amount the handlers    *)
(* see is a decimal(12,2) column or a form value with at most two          *)
(* fractional digits, on which parseFloat/toFixed(2) are exact.            *)
(* A table is a sequence of rows in insertion order (the order storage     *)
(* returns them in: displayOrder = max + 1, then createdAt).               *)
(***************************************************************************)
EXTENDS Integers, Sequences, FiniteSets, TLC

(***************************************************************************)
(* Bounds of the model.                                                    *)
(***************************************************************************)
MaxExpenses == 2      \* expense rows ever inserted
MaxIncomes == 2       \* income rows ever inserted
MaxStatements == 2    \* card statement rows ever inserted
MaxWithdrawals == 2   \* withdrawals in one cash-out request
MaxCashOut == 10000   \* cash-out applied to one month
MaxApplications == 3  \* consecutive cash-out requests for one month
MaxTotalsIncomes == 1 \* incomes posted while the totals are watched
MaxPlanCards == 3     \* cards offered to the cash-out planner

(***************************************************************************)
(* Values.                                                                 *)
(***************************************************************************)
NoId == 0                       \* a null foreign key / a row that is absent
Null == "null"
Today == "today"                \* new Date().toISOString().split('T')[0]
Amounts == {5000, 45000}        \* expense amounts
IncomeAmounts == {180000}
MonthAmounts == {5000}
CardBillAmounts == {32000, 45000}
NonCardAmounts == {91500}
TotalsCards == {1}
CardIds == {1, 2}
LedgerMonths == {<<2025, 12>>}               \* the month the ledger requests view
ViewMonths == {<<2025, 12>>, <<2026, 1>>}    \* the months the month requests view

\* The user's credit cards (credit_cards rows) and loans (loans rows).
creditCards ==
  << [id |-> 1, nickname |-> "JS Bank", statementDay |-> 31, dueDay |-> 20,
      dayDifference |-> 20, totalLimit |-> 100000],
     [id |-> 2, nickname |-> "HBL", statementDay |-> 5, dueDay |-> 25,
      dayDifference |-> 20, totalLimit |-> 5000] >>

loans == << [id |-> 1, name |-> <<"Car loan">>, installmentAmount |-> 5000] >>

(***************************************************************************)
(* Sequences.                                                              *)
(***************************************************************************)
Range(s) == {s[i] : i \in DOMAIN s}

RECURSIVE SumSeq(_)
SumSeq(s) == IF s = << >> THEN 0 ELSE Head(s) + SumSeq(Tail(s))

\* [...rows].map(r => r.amount) summed, as reduce((sum, r) => sum + r.amount, 0)
RECURSIVE SumAmounts(_)
SumAmounts(rows) ==
  IF rows = << >> THEN 0 ELSE Head(rows).amount + SumAmounts(Tail(rows))

Max(a, b) == IF a >= b THEN a ELSE b
Min(a, b) == IF a <= b THEN a ELSE b

\* Array.prototype.find: the first element that satisfies the test, or none.
FirstIndex(s, Test(_)) ==
  IF \E i \in DOMAIN s : Test(s[i])
  THEN CHOOSE i \in DOMAIN s : Test(s[i]) /\ \A j \in 1..(i - 1) : ~Test(s[j])
  ELSE 0

(***************************************************************************)
(* Calendar: the Date arithmetic the handlers rely on.                     *)
(***************************************************************************)
IsLeapYear(y) == (y % 4 = 0 /\ y % 100 # 0) \/ y % 400 = 0

\* A calendar whose months all have 31 days.
ThirtyOneDays(year, month) == 31

\* new Date(year, month, 0).getDate()
getDaysInMonth(year, month) ==
  IF month = 2 THEN (IF IsLeapYear(year) THEN 29 ELSE 28)
  ELSE IF month \in {4, 6, 9, 11} THEN 30 ELSE 31

\* Days from 1970-01-01 to the civil date y-m-d (proleptic Gregorian).
DaysFromCivil(y, m, d) ==
  LET yy == IF m <= 2 THEN y - 1 ELSE y
      era == yy \div 400
      yoe == yy - era * 400
      mp == (m + 9) % 12
      doy == (153 * mp + 2) \div 5 + d - 1
      doe == yoe * 365 + yoe \div 4 - yoe \div 100 + doy
  IN era * 146097 + doe - 719468

\* The civil date <<y, m, d>> of a day number.
CivilFromDays(z) ==
  LET zz == z + 719468
      era == zz \div 146097
      doe == zz - era * 146097
      yoe == (doe - doe \div 1460 + doe \div 36524 - doe \div 146096) \div 365
      doy == doe - (365 * yoe + yoe \div 4 - yoe \div 100)
      mp == (5 * doy + 2) \div 153
      d == doy - (153 * mp + 2) \div 5 + 1
      m == IF mp < 10 THEN mp + 3 ELSE mp - 9
      y == yoe + era * 400
  IN << IF m <= 2 THEN y + 1 ELSE y, m, d >>

\* const d = new Date(date); d.setDate(d.getDate() + n); formatDate(d)
AddDays(date, n) == CivilFromDays(DaysFromCivil(date[1], date[2], date[3]) + n)

PrevMonth(ym) == IF ym[2] - 1 < 1 THEN <<ym[1] - 1, 12>> ELSE <<ym[1], ym[2] - 1>>
NextMonth(ym) == IF ym[2] + 1 > 12 THEN <<ym[1] + 1, 1>> ELSE <<ym[1], ym[2] + 1>>

(***************************************************************************)
(* Labels.  A string is a sequence of tokens, so that startsWith and ===   *)
(* are what they are on strings.                                           *)
(***************************************************************************)
\* (the dash of the source is U+2013; it is written "-" here)
CashOutPrefix == <<"Cash-out -">>
\* `Cash-out - ${card.nickname}`
CashOutLabel(nickname) == <<"Cash-out -", " ", nickname>>
\* income.source.startsWith('Cash-out -')
StartsWith(s, p) == Len(s) >= Len(p) /\ SubSeq(s, 1, Len(p)) = p

Sources == {<<"Salary">>}
Labels == {<<"Rent">>}

(***************************************************************************)
(* State: the tables and the id generators, the last response, and what    *)
(* has been observed of the runs of requests in progress.                  *)
(***************************************************************************)
VARIABLES
  budgets,          \* rows [id, year, month, balanceUsed]
  incomes,          \* rows [id, budgetId, source, amount, recurring, status]
  expenses,         \* rows [id, budgetId, label, amount, recurring, status, kind,
                    \*       linkedCardStatementId, linkedLoanId]
  cardStatements,   \* rows [id, cardId, year, month, statementDate, dueDate,
                    \*       totalDue, status, paidDate]
  nextId,           \* [budget, income, expense, statement |-> next fresh id]
  last,             \* the last request served: [op, code]
  ledgerRun,        \* the link / pay / un-pay / delete run in progress on one expense
  cashRun,          \* the run of consecutive cash-out requests on one month
  client,           \* the computation in progress in the browser, if any
  requests          \* the requests in progress on the server, each between two
                    \* of its storage calls: [pc, locals]

tables == <<budgets, incomes, expenses, cardStatements>>
vars == <<budgets, incomes, expenses, cardStatements, nextId, last, ledgerRun, cashRun,
          client, requests>>

\* The server served the request op with the status code; the computation in
\* the browser is not touched by it, and no other request is in progress.
Served(op, code) == last' = [op |-> op, code |-> code] /\ UNCHANGED <<client, requests>>

\* No request in progress on the server.
NoRequests == [pc |-> "none"]

\* No computation in progress in the browser.
NoClient == [pc |-> "none"]

\* No run in progress.
NoLedgerRun ==
  [stage |-> "none", expense |-> NoId, statement |-> NoId, amount |-> 0, before |-> 0]
NoCashRun ==
  [stage |-> "none", ym |-> <<0, 0>>, n |-> 0, applied |-> [c \in CardIds |-> 0]]

(***************************************************************************)
(* storage.ts                                                              *)
(***************************************************************************)
\* getUserId(req): the user the requests of the model are made by
userId == 1

\* getBudget(userId, year, month): the index of the first matching row, or 0
getBudget(rows, ym) ==
  FirstIndex(rows, LAMBDA b : b.userId = userId /\ b.year = ym[1] /\ b.month = ym[2])

\* createBudget({userId, year, month})
createBudget(rows, id, ym) ==
  Append(rows, [id |-> id, userId |-> userId, year |-> ym[1], month |-> ym[2],
                balanceUsed |-> 0])

\* updateBudgetBalanceUsed(budgetId, balanceUsed)
updateBudgetBalanceUsed(rows, budgetId, balanceUsed) ==
  [i \in DOMAIN rows |->
     IF rows[i].id = budgetId THEN [rows[i] EXCEPT !.balanceUsed = balanceUsed]
     ELSE rows[i]]

\* getIncomes(budgetId) / getExpenses(budgetId)
OfBudget(rows, budgetId) == SelectSeq(rows, LAMBDA r : r.budgetId = budgetId)

\* getExpenseById(id), getCardStatementById(id), getCardById(id): index or 0
IndexById(rows, id) == FirstIndex(rows, LAMBDA r : r.id = id)

\* deleteIncome(id) / deleteExpense(id)
DeleteById(rows, id) == SelectSeq(rows, LAMBDA r : r.id # id)

\* updateExpenseStatus(id, status) / updateIncomeStatus(id, status)
UpdateStatus(rows, id, status) ==
  [i \in DOMAIN rows |->
     IF rows[i].id = id
     THEN [rows[i] EXCEPT !.status = status,
                          !.paidDate = IF status = "done" THEN Today ELSE Null]
     ELSE rows[i]]

Init ==
  /\ budgets = << >>
  /\ incomes = << >>
  /\ expenses = << >>
  /\ cardStatements = << >>
  /\ nextId = [budget |-> 1, income |-> 1, expense |-> 1, statement |-> 1]
  /\ last = [op |-> "none", code |-> 0]
  /\ ledgerRun = NoLedgerRun
  /\ cashRun = NoCashRun
  /\ client = NoClient
  /\ requests = NoRequests

\* The budget a handler works on after "get or create budget".
\* Returns <<budget rows, budget id, whether a row was created>>.
GetOrCreateBudget(ym) ==
  LET i == getBudget(budgets, ym)
  IN IF i # 0 THEN <<budgets, budgets[i].id, FALSE>>
     ELSE <<createBudget(budgets, nextId.budget, ym), nextId.budget, TRUE>>

\* The rows of a table that belong to the budget of month ym (none if absent).
RowsOfMonth(rows, ym) ==
  LET i == getBudget(budgets, ym)
  IN IF i = 0 THEN << >> ELSE OfBudget(rows, budgets[i].id)

\* safeParseFloat(budget.balanceUsed || '0') of the budget of month ym
BalanceUsed(ym) ==
  LET i == getBudget(budgets, ym) IN IF i = 0 THEN 0 ELSE budgets[i].balanceUsed

\* Budgets ordered by year, then month: orderBy(asc(year), asc(month)).
RECURSIVE SortBudgets(_)
SortBudgets(rows) ==
  IF rows = << >> THEN << >>
  ELSE LET Key(b) == b.year * 12 + b.month
           m == CHOOSE i \in DOMAIN rows :
                  /\ \A j \in DOMAIN rows : Key(rows[i]) <= Key(rows[j])
                  /\ \A j \in 1..(i - 1) : Key(rows[j]) # Key(rows[i])
       IN <<rows[m]>> \o SortBudgets(SelectSeq(rows, LAMBDA b : b.id # rows[m].id))

\* The budgets of the user in order, whatever their month.
budgetsOfAnyMonth(rows, ym) ==
  SortBudgets(SelectSeq(rows, LAMBDA b : b.userId = userId))

\* allBudgets.filter(b => b.year > year || (b.year === year && b.month > month))
\* on the budgets of the user
futureBudgets(rows, ym) ==
  SelectSeq(SortBudgets(SelectSeq(rows, LAMBDA b : b.userId = userId)),
            LAMBDA b : b.year > ym[1] \/ (b.year = ym[1] /\ b.month > ym[2]))

IncomeRow(id, budgetId, source, amount, recurring, status) ==
  [id |-> id, budgetId |-> budgetId, source |-> source, amount |-> amount,
   recurring |-> recurring, status |-> status,
   paidDate |-> IF status = "done" THEN Today ELSE Null]

ExpenseRow(id, budgetId, label, amount, recurring, kind, statementId, loanId) ==
  [id |-> id, budgetId |-> budgetId, label |-> label, amount |-> amount,
   recurring |-> recurring, status |-> "pending", paidDate |-> Null, kind |-> kind,
   linkedCardStatementId |-> statementId, linkedLoanId |-> loanId]

\* copyRecurringIncomeToFutureMonths(userId, year, month, income): the incomes
\* table after it, the first copy taking the id `id`.
RECURSIVE copyRecurringIncome(_, _, _, _)
copyRecurringIncome(future, rows, id, income) ==
  IF future = << >> THEN rows
  ELSE LET b == Head(future)
           existing == SelectSeq(rows, LAMBDA r :
                         r.budgetId = b.id /\ r.source = income.source /\ r.recurring)
       IN IF existing = << >>
          THEN copyRecurringIncome(Tail(future),
                 Append(rows, IncomeRow(id, b.id, income.source, income.amount,
                                        TRUE, "pending")),
                 id + 1, income)
          ELSE copyRecurringIncome(Tail(future), rows, id, income)

\* copyRecurringExpenseToFutureMonths(userId, year, month, expense)
RECURSIVE copyRecurringExpense(_, _, _, _)
copyRecurringExpense(future, rows, id, expense) ==
  IF future = << >> THEN rows
  ELSE LET b == Head(future)
           existing == SelectSeq(rows, LAMBDA r :
                         /\ r.budgetId = b.id /\ r.label = expense.label
                         /\ r.recurring /\ r.kind = "REGULAR")
       IN IF existing = << >>
          THEN copyRecurringExpense(Tail(future),
                 Append(rows, ExpenseRow(id, b.id, expense.label, expense.amount,
                                         TRUE, "REGULAR", NoId, NoId)),
                 id + 1, expense)
          ELSE copyRecurringExpense(Tail(future), rows, id, expense)

(***************************************************************************)
(* GET /api/budgets/:year/:month: the lazy creation of the budget.         *)
(***************************************************************************)
GetBudget(ym) ==
  LET got == GetOrCreateBudget(ym)
  IN /\ budgets' = got[1]
     /\ nextId' = IF got[3] THEN [nextId EXCEPT !.budget = @ + 1] ELSE nextId
     /\ UNCHANGED <<incomes, expenses, cardStatements>>
     /\ Served("getBudget", 200)
     /\ ledgerRun' = NoLedgerRun
     /\ cashRun' = NoCashRun

\* A cards total that counts the unpaid card bills only.
unpaidCardsTotal(exps) ==
  SumAmounts(SelectSeq(exps, LAMBDA exp : exp.kind = "CARD_BILL" /\ exp.status # "done"))
\* Paid card bills that never leave the balance.
noPaidCardExpenses(exps) == 0
\* Non-card expenses that stay pending when they are paid.
everyNonCardExpense(exps) ==
  SumAmounts(SelectSeq(exps, LAMBDA exp : exp.kind # "CARD_BILL"))

\* The sums the handler derives from the month's incomes and expenses.
incomeTotal(incs) == SumAmounts(incs)
paidIncomeTotal(incs) == SumAmounts(SelectSeq(incs, LAMBDA inc : inc.status = "done"))
pendingCardBills(exps) ==
  SumAmounts(SelectSeq(exps, LAMBDA exp : exp.kind = "CARD_BILL" /\ exp.status = "pending"))
cardsTotal(exps) ==
  SumAmounts(SelectSeq(exps, LAMBDA exp : exp.kind = "CARD_BILL"))
paidCardExpenses(exps) ==
  SumAmounts(SelectSeq(exps, LAMBDA exp : exp.kind = "CARD_BILL" /\ exp.status = "done"))
paidNonCardExpenses(exps) ==
  SumAmounts(SelectSeq(exps, LAMBDA exp : exp.kind # "CARD_BILL" /\ exp.status = "done"))
nonCardExpensesTotal(exps) ==
  SumAmounts(SelectSeq(exps, LAMBDA exp : exp.kind # "CARD_BILL"))
pendingNonCardExpenses(exps) ==
  SumAmounts(SelectSeq(exps, LAMBDA exp : exp.kind # "CARD_BILL" /\ exp.status = "pending"))
totalExpenses(exps) == SumAmounts(exps)

\* const afterCardPayments = incomeTotal - cardsTotal
afterCardPayments(incs, exps) == incomeTotal(incs) - cardsTotal(exps)
\* const balance = paidIncomeTotal - paidCardExpenses - paidNonCardExpenses
balance(incs, exps) ==
  paidIncomeTotal(incs) - paidCardExpenses(exps) - paidNonCardExpenses(exps)
\* const need = Math.max(0, totalPendingExpenses - balance)
need(incs, exps) ==
  LET totalPendingExpenses == pendingCardBills(exps) + pendingNonCardExpenses(exps)
  IN Max(0, totalPendingExpenses - balance(incs, exps))

\* The totals of the response of server/routes.ts for the month ym.
Totals(ym) ==
  LET incs == RowsOfMonth(incomes, ym)
      exps == RowsOfMonth(expenses, ym)
  IN [incomeTotal |-> incomeTotal(incs),
      cardsTotal |-> cardsTotal(exps),
      nonCardExpensesTotal |-> nonCardExpensesTotal(exps),
      totalExpenses |-> totalExpenses(exps),
      afterCardPayments |-> afterCardPayments(incs, exps),
      balanceUsed |-> BalanceUsed(ym),
      balance |-> balance(incs, exps),
      need |-> need(incs, exps)]

\* The totals of the response of the api handler revision for the month ym.
TotalsApi(ym) ==
  LET incs == RowsOfMonth(incomes, ym)
      exps == RowsOfMonth(expenses, ym)
  IN [incomeTotal |-> incomeTotal(incs),
      cardsTotal |-> cardsTotal(exps),
      nonCardExpensesTotal |-> nonCardExpensesTotal(exps),
      totalExpenses |-> totalExpenses(exps),
      afterCardPayments |-> afterCardPayments(incs, exps),
      balanceUsed |-> BalanceUsed(ym),
      balance |-> incomeTotal(incs) - paidCardExpenses(exps),
      need |-> Max(0, nonCardExpensesTotal(exps) - afterCardPayments(incs, exps))]

(***************************************************************************)
(* GET /api/cards/:cardId/statements                                       *)
(***************************************************************************)
\* The statement auto-created for a card and a month.
NewStatement(id, card, ym) ==
  LET statementDay == Min(card.statementDay, getDaysInMonth(ym[1], ym[2]))
      statementDate == <<ym[1], ym[2], statementDay>>
  IN [id |-> id, cardId |-> card.id, year |-> ym[1], month |-> ym[2],
      statementDate |-> statementDate,
      dueDate |-> AddDays(statementDate, card.dayDifference),
      totalDue |-> 0, status |-> "pending", paidDate |-> Null]

HasStatement(rows, cardId, ym) ==
  \E i \in DOMAIN rows :
    rows[i].cardId = cardId /\ rows[i].year = ym[1] /\ rows[i].month = ym[2]

\* The statements of a card for a month.
StatementsOf(rows, cardId, ym) ==
  SelectSeq(rows, LAMBDA stmt :
    stmt.cardId = cardId /\ stmt.year = ym[1] /\ stmt.month = ym[2])

GetCardStatements(cardId, ym) ==
  LET ci == IndexById(creditCards, cardId)
      prev == PrevMonth(ym)
      withPrev ==
        IF HasStatement(cardStatements, cardId, prev) THEN cardStatements
        ELSE Append(cardStatements, NewStatement(nextId.statement, creditCards[ci], prev))
      id2 == nextId.statement + (Len(withPrev) - Len(cardStatements))
      withBoth ==
        IF HasStatement(withPrev, cardId, ym) THEN withPrev
        ELSE Append(withPrev, NewStatement(id2, creditCards[ci], ym))
  IN /\ nextId.statement <= MaxStatements
     /\ IF ci = 0
        THEN /\ UNCHANGED <<cardStatements, nextId>>
             /\ Served("getCardStatements", 404)
        ELSE /\ cardStatements' = withBoth
             /\ nextId' = [nextId EXCEPT
                             !.statement = @ + (Len(withBoth) - Len(cardStatements))]
             /\ Served("getCardStatements", 200)
     /\ UNCHANGED <<budgets, incomes, expenses>>
     /\ ledgerRun' = NoLedgerRun
     /\ cashRun' = NoCashRun

(***************************************************************************)
(* POST /api/budgets/:year/:month/incomes                                  *)
(***************************************************************************)
PostIncome(ym, source, amount, recurring) ==
  LET got == GetOrCreateBudget(ym)
      income == IncomeRow(nextId.income, got[2], source, amount, recurring, "pending")
      created == Append(incomes, income)
      after == IF recurring
               THEN copyRecurringIncome(futureBudgets(got[1], ym), created,
                                        nextId.income + 1, income)
               ELSE created
  IN /\ nextId.income <= MaxIncomes
     /\ budgets' = got[1]
     /\ incomes' = after
     /\ nextId' = [nextId EXCEPT
                     !.budget = IF got[3] THEN @ + 1 ELSE @,
                     !.income = @ + (Len(after) - Len(incomes))]
     /\ UNCHANGED <<expenses, cardStatements>>
     /\ Served("postIncome", 200)
     /\ ledgerRun' = NoLedgerRun
     /\ cashRun' = NoCashRun

(***************************************************************************)
(* PATCH /api/incomes/:id/status                                           *)
(***************************************************************************)
PatchIncomeStatus(id, status) ==
  /\ incomes' = UpdateStatus(incomes, id, status)
  /\ UNCHANGED <<budgets, expenses, cardStatements, nextId>>
  /\ Served("patchIncomeStatus", 200)
  /\ ledgerRun' = NoLedgerRun
  /\ cashRun' = NoCashRun

(***************************************************************************)
(* The statement ledger: what each expense event does to totalDue.         *)
(***************************************************************************)
\* A ledger event that leaves totalDue as it is.
KeptTotalDue(currentTotalDue, expenseAmount) == currentTotalDue
\* A ledger event that subtracts where the amount is owed again.
SubtractedTotalDue(currentTotalDue, expenseAmount) == currentTotalDue - expenseAmount

\* linkExpense: (currentTotalDue + parseFloat(amount)).toFixed(2)
LinkedTotalDue(currentTotalDue, amount) == currentTotalDue + amount
\* markExpensePaid: Math.max(0, currentTotalDue - expenseAmount).toFixed(2)
PaidTotalDue(currentTotalDue, expenseAmount) == Max(0, currentTotalDue - expenseAmount)
\* unmarkExpensePaid: (currentTotalDue + expenseAmount).toFixed(2)
UnpaidTotalDue(currentTotalDue, expenseAmount) == currentTotalDue + expenseAmount
\* unlinkExpense of a pending expense: Math.max(0, currentTotalDue - expenseAmount)
UnlinkedTotalDue(currentTotalDue, expenseAmount) == Max(0, currentTotalDue - expenseAmount)

(***************************************************************************)
(* POST /api/budgets/:year/:month/expenses                                 *)
(***************************************************************************)
PostExpense(ym, label, amount, recurring, statementId) ==
  LET got == GetOrCreateBudget(ym)
      si == IndexById(cardStatements, statementId)
      expenseKind == IF statementId # NoId THEN "CARD_BILL" ELSE "REGULAR"
      expense == ExpenseRow(nextId.expense, got[2], label, amount, recurring,
                            expenseKind, statementId, NoId)
      created == Append(expenses, expense)
      after == IF recurring /\ expenseKind = "REGULAR"
               THEN copyRecurringExpense(futureBudgets(got[1], ym), created,
                                         nextId.expense + 1, expense)
               ELSE created
  IN /\ nextId.expense <= MaxExpenses
     /\ budgets' = got[1]
     /\ IF statementId # NoId /\ si = 0
        THEN /\ UNCHANGED <<expenses, cardStatements>>
             /\ nextId' = [nextId EXCEPT !.budget = IF got[3] THEN @ + 1 ELSE @]
             /\ Served("postExpense", 400)
             /\ ledgerRun' = NoLedgerRun
        ELSE /\ cardStatements' =
                  IF statementId # NoId
                  THEN [cardStatements EXCEPT
                          ![si].totalDue = LinkedTotalDue(@, amount)]
                  ELSE cardStatements
             /\ expenses' = after
             /\ nextId' = [nextId EXCEPT
                             !.budget = IF got[3] THEN @ + 1 ELSE @,
                             !.expense = @ + (Len(after) - Len(expenses))]
             /\ Served("postExpense", 200)
             /\ ledgerRun' =
                  IF statementId # NoId
                  THEN [stage |-> "linked", expense |-> expense.id,
                        statement |-> statementId, amount |-> amount,
                        before |-> cardStatements[si].totalDue]
                  ELSE NoLedgerRun
     /\ UNCHANGED incomes
     /\ cashRun' = NoCashRun

(***************************************************************************)
(* PATCH /api/expenses/:id/status                                          *)
(***************************************************************************)
PatchExpenseStatus(id, status) ==
  LET ei == IndexById(expenses, id)
      expense == expenses[ei]
      si == IndexById(cardStatements, expense.linkedCardStatementId)
      statement == cardStatements[si]
      isCardBill == expense.kind = "CARD_BILL" /\ expense.linkedCardStatementId # NoId
      markDone == status = "done" /\ expense.status = "pending"
      markPending == status = "pending" /\ expense.status = "done"
  IN IF ei = 0
     THEN /\ UNCHANGED <<tables, nextId>>
          /\ Served("patchExpenseStatus", 404)
          /\ ledgerRun' = NoLedgerRun
          /\ cashRun' = NoCashRun
     ELSE /\ cardStatements' =
               IF isCardBill /\ si # 0
               THEN IF markDone
                    THEN [cardStatements EXCEPT
                            ![si].totalDue = PaidTotalDue(@, expense.amount),
                            ![si].status = "done",
                            ![si].paidDate = Today]
                    ELSE IF markPending
                    THEN [cardStatements EXCEPT
                            ![si].totalDue = UnpaidTotalDue(@, expense.amount),
                            ![si].status = "pending",
                            ![si].paidDate = Null]
                    ELSE cardStatements
               ELSE cardStatements
          /\ budgets' =
               IF isCardBill /\ si # 0 /\ markPending
               THEN updateBudgetBalanceUsed(budgets, expense.budgetId, 0)
               ELSE budgets
          /\ expenses' = UpdateStatus(expenses, id, status)
          /\ UNCHANGED <<incomes, nextId>>
          /\ Served("patchExpenseStatus", 200)
          /\ ledgerRun' =
               IF ledgerRun.expense = id /\ ledgerRun.stage = "linked" /\ status = "done"
               THEN [ledgerRun EXCEPT !.stage = "paid"]
               ELSE IF ledgerRun.expense = id /\ ledgerRun.stage = "paid"
                       /\ status = "pending"
               THEN [ledgerRun EXCEPT !.stage = "unpaid"]
               ELSE NoLedgerRun
          /\ cashRun' = NoCashRun

(***************************************************************************)
(* DELETE /api/expenses/:id                                                *)
(***************************************************************************)
DeleteExpense(id) ==
  LET ei == IndexById(expenses, id)
      expense == expenses[ei]
      si == IndexById(cardStatements, expense.linkedCardStatementId)
      isCardBill == expense.kind = "CARD_BILL" /\ expense.linkedCardStatementId # NoId
      \* the statement after the branch on the expense's status
      reversed ==
        IF expense.status = "pending"
        THEN [cardStatements EXCEPT
                ![si].totalDue = UnlinkedTotalDue(@, expense.amount)]
        ELSE [cardStatements EXCEPT ![si].status = "pending", ![si].paidDate = Null]
      otherCardExpenses ==
        SelectSeq(OfBudget(expenses, expense.budgetId), LAMBDA exp :
                    /\ exp.kind = "CARD_BILL"
                    /\ exp.linkedCardStatementId = expense.linkedCardStatementId
                    /\ exp.id # expense.id)
  IN IF ei = 0
     THEN /\ UNCHANGED <<tables, nextId>>
          /\ Served("deleteExpense", 404)
          /\ ledgerRun' = NoLedgerRun
          /\ cashRun' = NoCashRun
     ELSE /\ cardStatements' =
               IF isCardBill /\ si # 0
               THEN IF Len(otherCardExpenses) = 0
                    THEN [reversed EXCEPT ![si].totalDue = 0,
                                          ![si].status = "pending",
                                          ![si].paidDate = Null]
                    ELSE reversed
               ELSE cardStatements
          /\ budgets' =
               IF isCardBill /\ si # 0 /\ expense.status # "pending"
               THEN updateBudgetBalanceUsed(budgets, expense.budgetId, 0)
               ELSE budgets
          /\ expenses' = DeleteById(expenses, id)
          /\ UNCHANGED <<incomes, nextId>>
          /\ Served("deleteExpense", 200)
          /\ ledgerRun' =
               IF ledgerRun.expense = id /\ ledgerRun.stage = "linked"
               THEN [ledgerRun EXCEPT !.stage = "unlinked"]
               ELSE NoLedgerRun
          /\ cashRun' = NoCashRun

(***************************************************************************)
(* GET /api/cards?year=&month= : the available limit of a card             *)
(***************************************************************************)
\* relevantStatements: the pending statements of the card whose due date
\* falls in the viewed month.
relevantStatements(cardId, ym) ==
  SelectSeq(cardStatements, LAMBDA stmt :
    /\ stmt.cardId = cardId
    /\ stmt.dueDate[1] = ym[1] /\ stmt.dueDate[2] = ym[2]
    /\ stmt.status = "pending")

\* cashOutAmount: the amount of the first income of the month labelled with
\* the card's nickname, 0 without a budget or without such an income.
cashOutAmount(cardId, ym) ==
  LET bi == getBudget(budgets, ym)
      rows == OfBudget(incomes, budgets[bi].id)
      source == CashOutLabel(creditCards[IndexById(creditCards, cardId)].nickname)
      xi == FirstIndex(rows, LAMBDA inc : inc.source = source)
  IN IF bi = 0 THEN 0 ELSE IF xi = 0 THEN 0 ELSE rows[xi].amount

\* availableLimit = totalLimit - totalDueAmount - cashOutAmount
availableLimit(cardId, ym) ==
  LET totalDueAmount ==
        SumSeq([i \in DOMAIN relevantStatements(cardId, ym) |->
                  relevantStatements(cardId, ym)[i].totalDue])
  IN creditCards[IndexById(creditCards, cardId)].totalLimit
       - totalDueAmount - cashOutAmount(cardId, ym)

(***************************************************************************)
(* POST /api/budgets/:year/:month/cash-out                                 *)
(***************************************************************************)
WithdrawalAmounts == {0, 5000}
Withdrawal == [cardId : CardIds, amount : WithdrawalAmounts]
\* The request bodies: lists of 1..MaxWithdrawals withdrawals.
Plans == UNION {[1..n -> Withdrawal] : n \in 1..MaxWithdrawals}

\* The sum of the withdrawals of a plan that name the card.
RECURSIVE WithdrawnFrom(_, _)
WithdrawnFrom(withdrawals, cardId) ==
  IF withdrawals = << >> THEN 0
  ELSE (IF Head(withdrawals).cardId = cardId THEN Head(withdrawals).amount ELSE 0)
       + WithdrawnFrom(Tail(withdrawals), cardId)

\* updateIncome(id, {source, amount, recurring})
updateIncome(rows, id, source, amount, recurring) ==
  [i \in DOMAIN rows |->
     IF rows[i].id = id
     THEN [rows[i] EXCEPT !.source = source, !.amount = amount, !.recurring = recurring]
     ELSE rows[i]]

\* The snapshot of the month's incomes the handler matches every withdrawal
\* against: const existingIncomes = await storage.getIncomes(budget.id),
\* read once before the loop.
ExistingIncomes(budgetId) == OfBudget(incomes, budgetId)

\* for (const withdrawal of withdrawals) { ... }: the incomes table and the
\* id generator after the loop, and newCashOut.
RECURSIVE ApplyWithdrawals(_, _, _, _)
ApplyWithdrawals(withdrawals, rows, id, budgetId) ==
  IF withdrawals = << >> THEN [rows |-> rows, id |-> id, newCashOut |-> 0]
  ELSE LET withdrawal == Head(withdrawals)
           ci == IndexById(creditCards, withdrawal.cardId)
           source == CashOutLabel(creditCards[ci].nickname)
           existingIncomes == ExistingIncomes(budgetId)
           xi == FirstIndex(existingIncomes, LAMBDA inc : inc.source = source)
           existingCashOut == existingIncomes[xi]
       IN IF ci = 0 THEN ApplyWithdrawals(Tail(withdrawals), rows, id, budgetId)
          ELSE LET rest ==
                     IF xi # 0
                     THEN ApplyWithdrawals(Tail(withdrawals),
                            updateIncome(rows, existingCashOut.id, existingCashOut.source,
                                         existingCashOut.amount + withdrawal.amount, FALSE),
                            id, budgetId)
                     ELSE ApplyWithdrawals(Tail(withdrawals),
                            Append(rows, IncomeRow(id, budgetId, source,
                                                   withdrawal.amount, FALSE, "done")),
                            id + 1, budgetId)
               IN [rest EXCEPT !.newCashOut = @ + withdrawal.amount]

\* The cash-out rows of a month: those resetPlan's prefix test selects.
CashOutRows(rows, ym) ==
  SelectSeq(RowsOfMonth(rows, ym), LAMBDA inc : StartsWith(inc.source, CashOutPrefix))

ApplyCashOut(ym, withdrawals) ==
  LET got == GetOrCreateBudget(ym)
      bi == getBudget(got[1], ym)
      existingBalanceUsed == got[1][bi].balanceUsed
      done == ApplyWithdrawals(withdrawals, incomes, nextId.income, got[2])
      totalCashOut == existingBalanceUsed + done.newCashOut
      total == SumSeq([i \in DOMAIN withdrawals |-> withdrawals[i].amount])
  IN /\ nextId.income <= MaxIncomes
     /\ (cashRun.stage = "applying" /\ cashRun.ym = ym) => cashRun.n < MaxApplications
     /\ SumAmounts(CashOutRows(incomes, ym)) + total <= MaxCashOut
     /\ BalanceUsed(ym) + total <= MaxCashOut
     /\ incomes' = done.rows
     /\ budgets' = updateBudgetBalanceUsed(got[1], got[2], totalCashOut)
     /\ nextId' = [nextId EXCEPT !.budget = IF got[3] THEN @ + 1 ELSE @,
                                 !.income = done.id]
     /\ UNCHANGED <<expenses, cardStatements>>
     /\ Served("applyCashOut", 200)
     /\ ledgerRun' = NoLedgerRun
     /\ cashRun' =
          IF cashRun.stage = "applying" /\ cashRun.ym = ym
          THEN [cashRun EXCEPT
                  !.n = @ + 1,
                  !.applied = [c \in CardIds |-> @[c] + WithdrawnFrom(withdrawals, c)]]
          ELSE IF CashOutRows(incomes, ym) = << >> /\ BalanceUsed(ym) = 0
          THEN [stage |-> "applying", ym |-> ym, n |-> 1,
                applied |-> [c \in CardIds |-> WithdrawnFrom(withdrawals, c)]]
          ELSE NoCashRun

(***************************************************************************)
(* DELETE /api/budgets/:year/:month/cash-out                               *)
(***************************************************************************)
\* A reset that stops after the first cash-out row of the budget.
DeleteFirstCashOutIncome(rows, budgetId) ==
  LET i == FirstIndex(rows, LAMBDA inc :
             inc.budgetId = budgetId /\ StartsWith(inc.source, CashOutPrefix))
  IN IF i = 0 THEN rows ELSE DeleteById(rows, rows[i].id)

\* for (const income of existingIncomes)
\*   if (income.source.startsWith('Cash-out -')) deleteIncome(income.id)
DeleteCashOutIncomes(rows, budgetId) ==
  SelectSeq(rows, LAMBDA inc :
              ~(inc.budgetId = budgetId /\ StartsWith(inc.source, CashOutPrefix)))

ResetCashOut(ym) ==
  LET bi == getBudget(budgets, ym)
  IN IF bi = 0
     THEN /\ UNCHANGED <<tables, nextId>>
          /\ Served("resetCashOut", 404)
          /\ ledgerRun' = NoLedgerRun
          /\ cashRun' = NoCashRun
     ELSE /\ incomes' = DeleteCashOutIncomes(incomes, budgets[bi].id)
          /\ budgets' = updateBudgetBalanceUsed(budgets, budgets[bi].id, 0)
          /\ UNCHANGED <<expenses, cardStatements, nextId>>
          /\ Served("resetCashOut", 200)
          /\ ledgerRun' = NoLedgerRun
          /\ cashRun' =
               IF cashRun.stage = "applying" /\ cashRun.ym = ym
               THEN [cashRun EXCEPT !.stage = "reset"]
               ELSE NoCashRun

(***************************************************************************)
(* POST /api/budgets/:year/:month/create-next                              *)
(***************************************************************************)
\* getRecurringIncomes(userId, year, month)
getRecurringIncomes(ym) ==
  SelectSeq(RowsOfMonth(incomes, ym), LAMBDA inc : inc.recurring)

\* A recurring-expense query that leaves the kind out.
getRecurringExpensesOfAnyKind(ym) ==
  SelectSeq(RowsOfMonth(expenses, ym), LAMBDA exp : exp.recurring)

\* getRecurringExpenses(userId, year, month): REGULAR expenses only
getRecurringExpenses(ym) ==
  SelectSeq(RowsOfMonth(expenses, ym), LAMBDA exp : exp.recurring /\ exp.kind = "REGULAR")

\* A duplicate check that never finds the next month.
NeverExisting(ym) == 0

\* const existingBudget = await storage.getBudget(userId, nextYear, nextMonth)
existingBudget(ym) == getBudget(budgets, NextMonth(ym))

CreateNext(ym) ==
  LET next == NextMonth(ym)
      newBudget == nextId.budget
      recurringIncomes == getRecurringIncomes(ym)
      recurringExpenses == getRecurringExpenses(ym)
      copiedIncomes ==
        [i \in 1..Len(recurringIncomes) |->
           IncomeRow(nextId.income + i - 1, newBudget, recurringIncomes[i].source,
                     recurringIncomes[i].amount, TRUE, "pending")]
      copiedExpenses ==
        [i \in 1..Len(recurringExpenses) |->
           ExpenseRow(nextId.expense + i - 1, newBudget, recurringExpenses[i].label,
                      recurringExpenses[i].amount, TRUE, "REGULAR", NoId, NoId)]
      loanExpenses ==
        [i \in 1..Len(loans) |->
           ExpenseRow(nextId.expense + Len(recurringExpenses) + i - 1, newBudget,
                      loans[i].name, loans[i].installmentAmount, TRUE, "LOAN",
                      NoId, loans[i].id)]
      statements ==
        [i \in 1..Len(creditCards) |->
           NewStatement(nextId.statement + i - 1, creditCards[i], next)]
  IN IF existingBudget(ym) # 0
     THEN /\ UNCHANGED <<tables, nextId>>
          /\ Served("createNext", 400)
          /\ ledgerRun' = NoLedgerRun
          /\ cashRun' = NoCashRun
     ELSE /\ budgets' = createBudget(budgets, newBudget, next)
          /\ incomes' = incomes \o copiedIncomes
          /\ expenses' = expenses \o copiedExpenses \o loanExpenses
          /\ cardStatements' = cardStatements \o statements
          /\ nextId' = [budget |-> nextId.budget + 1,
                        income |-> nextId.income + Len(copiedIncomes),
                        expense |-> nextId.expense + Len(copiedExpenses) + Len(loanExpenses),
                        statement |-> nextId.statement + Len(statements)]
          /\ Served("createNext", 200)
          /\ ledgerRun' = NoLedgerRun
          /\ cashRun' = NoCashRun

(***************************************************************************)
(* The ledger: the statements of the cards and the expenses linked to them.*)
(***************************************************************************)
Next ==
  \/ \E c \in CardIds, ym \in LedgerMonths : GetCardStatements(c, ym)
  \/ \E ym \in LedgerMonths, l \in Labels, a \in Amounts, sid \in 0..MaxStatements :
       PostExpense(ym, l, a, FALSE, sid)
  \/ \E i \in 1..MaxExpenses, st \in {"pending", "done"} : PatchExpenseStatus(i, st)
  \/ \E i \in 1..MaxExpenses : DeleteExpense(i)

Spec == Init /\ [][Next]_vars

\* The statement of the ledger run in progress.
RunStatement == cardStatements[IndexById(cardStatements, ledgerRun.statement)]

\* C1: for a statement whose totalDue is 0, creating a CARD_BILL expense of
\* amount X linked to it and then deleting that expense while it is still
\* pending returns the statement's totalDue to exactly 0.
C1_LinkThenUnlinkRestoresZero ==
  (ledgerRun.stage = "unlinked" /\ ledgerRun.before = 0)
    => RunStatement.totalDue = 0

\* C1 happens: an expense of 45000 was linked to a statement at 0 and deleted
\* while pending, another expense staying linked to the same statement.
C1_Witness ==
  /\ ledgerRun.stage = "unlinked" /\ ledgerRun.before = 0 /\ ledgerRun.amount = 45000
  /\ \E i \in DOMAIN expenses :
       expenses[i].linkedCardStatementId = ledgerRun.statement

\* C2: for a statement starting at totalDue 0, creating a linked CARD_BILL
\* expense of amount X, marking it done and then marking it pending again
\* leaves the statement with totalDue exactly X, status pending and no paid date.
C2_PayThenUnpayRestoresLinked ==
  (ledgerRun.stage = "unpaid" /\ ledgerRun.before = 0)
    => /\ RunStatement.totalDue = ledgerRun.amount
       /\ RunStatement.status = "pending"
       /\ RunStatement.paidDate = Null

\* C2 happens: an expense linked to a statement at 0 was paid and un-paid.
C2_Witness ==
  /\ ledgerRun.stage = "unpaid" /\ ledgerRun.before = 0 /\ ledgerRun.amount = 45000

(***************************************************************************)
(* The cash-out plan of a month.                                           *)
(***************************************************************************)
NextCashOut ==
  \/ \E ym \in LedgerMonths, s \in Sources, a \in IncomeAmounts :
       PostIncome(ym, s, a, FALSE)
  \/ \E i \in 1..MaxIncomes, st \in {"pending", "done"} : PatchIncomeStatus(i, st)
  \/ \E ym \in LedgerMonths, w \in Plans : ApplyCashOut(ym, w)
  \/ \E ym \in LedgerMonths : ResetCashOut(ym)

SpecCashOut == Init /\ [][NextCashOut]_vars

\* The rows of the month of the cash-out run labelled with the card's nickname.
RunCashOutRows(cardId) ==
  SelectSeq(RowsOfMonth(incomes, cashRun.ym), LAMBDA inc :
    inc.source = CashOutLabel(creditCards[IndexById(creditCards, cardId)].nickname))

\* C3: applying cash-out plans for the same card to the same month repeatedly
\* never creates a second cash-out income row for that card: after n
\* applications there is exactly one row labelled "Cash-out - {nickname}", its
\* amount is the sum of all withdrawals applied for that card, and the budget's
\* balanceUsed is the sum of all applied withdrawals.
C3_OneCashOutRowPerCard ==
  cashRun.stage = "applying" =>
    /\ \A c \in CardIds :
         cashRun.applied[c] > 0 =>
           /\ Len(RunCashOutRows(c)) = 1
           /\ RunCashOutRows(c)[1].amount = cashRun.applied[c]
    /\ BalanceUsed(cashRun.ym) = SumSeq([c \in 1..Cardinality(CardIds) |-> cashRun.applied[c]])

\* C4: after a reset of the cash-out plan of an existing budget, whatever
\* applications preceded it, the budget has no income row whose source starts
\* with the cash-out prefix and its balanceUsed is exactly 0.
C4_ResetIsTotal ==
  [][\A ym \in LedgerMonths :
       (ResetCashOut(ym) /\ getBudget(budgets, ym) # 0)
         => /\ CashOutRows(incomes, ym)' = << >>
            /\ BalanceUsed(ym)' = 0]_vars

\* C4 happens: a reset was served after two applications that left cash-out
\* rows for both cards.
C4_Witness ==
  /\ cashRun.stage = "reset" /\ cashRun.n = 2
  /\ \A c \in CardIds : cashRun.applied[c] > 0
  /\ last = [op |-> "resetCashOut", code |-> 200]

(***************************************************************************)
(* The months of a user: lazily created budgets, recurring items and the   *)
(* creation of the next month.                                             *)
(***************************************************************************)
NextMonths ==
  \/ \E ym \in ViewMonths : GetBudget(ym)
  \/ \E ym \in ViewMonths, s \in Sources, a \in IncomeAmounts, r \in BOOLEAN :
       PostIncome(ym, s, a, r)
  \/ \E ym \in ViewMonths, l \in Labels, a \in MonthAmounts, r \in BOOLEAN,
        sid \in {NoId, 1} :
       PostExpense(ym, l, a, r, sid)
  \/ \E ym \in ViewMonths : CreateNext(ym)

SpecMonths == Init /\ [][NextMonths]_vars

\* C5: create-next for a month M when a budget for M+1 already exists fails
\* with the duplicate-month error and creates or modifies no budget, income,
\* expense or card statement.
C5_DuplicateNextMonthRejected ==
  [][\A ym \in ViewMonths :
       (CreateNext(ym) /\ getBudget(budgets, NextMonth(ym)) # 0)
         => /\ UNCHANGED tables
            /\ last' = [op |-> "createNext", code |-> 400]]_vars

\* C5 happens: create-next was refused for a next month that holds copied
\* recurring items and statements.
C5_Witness ==
  /\ last = [op |-> "createNext", code |-> 400]
  /\ \E ym \in ViewMonths :
       /\ getBudget(budgets, NextMonth(ym)) # 0
       /\ RowsOfMonth(incomes, NextMonth(ym)) # << >>
       /\ RowsOfMonth(expenses, NextMonth(ym)) # << >>
       /\ \A c \in CardIds : HasStatement(cardStatements, c, NextMonth(ym))

(***************************************************************************)
(* The totals of a month, read after every change of its items.            *)
(***************************************************************************)
NextTotals ==
  \/ \E ym \in LedgerMonths : GetBudget(ym)
  \/ \E c \in TotalsCards, ym \in LedgerMonths : GetCardStatements(c, ym)
  \/ \E ym \in LedgerMonths, s \in Sources, a \in IncomeAmounts :
       nextId.income <= MaxTotalsIncomes /\ PostIncome(ym, s, a, FALSE)
  \/ \E i \in 1..MaxTotalsIncomes, st \in {"pending", "done"} : PatchIncomeStatus(i, st)
  \/ \E ym \in LedgerMonths, l \in Labels, a \in NonCardAmounts :
       PostExpense(ym, l, a, FALSE, NoId)
  \/ \E ym \in LedgerMonths, l \in Labels, a \in CardBillAmounts, sid \in 1..MaxStatements :
       PostExpense(ym, l, a, FALSE, sid)
  \/ \E i \in 1..MaxExpenses, st \in {"pending", "done"} : PatchExpenseStatus(i, st)

SpecTotals == Init /\ [][NextTotals]_vars

\* The step is a served status request that moved the i-th expense row, a
\* CARD_BILL expense, from one status to the other.
CardBillMoved(i, from, to) ==
  /\ last' = [op |-> "patchExpenseStatus", code |-> 200]
  /\ Len(expenses') = Len(expenses)
  /\ expenses[i].kind = "CARD_BILL"
  /\ expenses[i].status = from /\ expenses'[i].status = to

\* The incomes and the expenses of the budget of the i-th expense row, before
\* and after the step.
IncomesWith(i) == OfBudget(incomes, expenses[i].budgetId)
ExpensesWith(i) == OfBudget(expenses, expenses[i].budgetId)
IncomesWithAfter(i) == OfBudget(incomes', expenses[i].budgetId)
ExpensesWithAfter(i) == OfBudget(expenses', expenses[i].budgetId)

\* C7: cardsTotal (the sum of all CARD_BILL amounts of the month, both
\* statuses) and afterCardPayments (incomeTotal - cardsTotal) are unchanged by
\* toggling any CARD_BILL expense between pending and done.
C7_CardsTotalIgnoresStatus ==
  [][\A i \in DOMAIN expenses :
       (CardBillMoved(i, "pending", "done") \/ CardBillMoved(i, "done", "pending"))
         => /\ cardsTotal(ExpensesWithAfter(i)) = cardsTotal(ExpensesWith(i))
            /\ afterCardPayments(IncomesWithAfter(i), ExpensesWithAfter(i)) =
                 afterCardPayments(IncomesWith(i), ExpensesWith(i))]_vars

\* C7 happens: a card bill of the month was paid, with an income in the month.
C7_Witness ==
  /\ ledgerRun.stage = "paid"
  /\ \E ym \in LedgerMonths :
       /\ Totals(ym).cardsTotal = ledgerRun.amount
       /\ Totals(ym).incomeTotal > 0

\* C8 as stated: when a pending CARD_BILL expense of amount A is marked done
\* and nothing else changes, the month's balance increases by A and
\* pendingCardBills decreases by A.
C8_PaidCardBillRaisesBalance ==
  [][\A i \in DOMAIN expenses :
       CardBillMoved(i, "pending", "done")
         => /\ balance(IncomesWithAfter(i), ExpensesWithAfter(i)) =
                 balance(IncomesWith(i), ExpensesWith(i)) + expenses[i].amount
            /\ pendingCardBills(ExpensesWithAfter(i)) =
                 pendingCardBills(ExpensesWith(i)) - expenses[i].amount]_vars

\* C8 as the code has it: when a pending CARD_BILL expense of amount A is
\* marked done and nothing else changes, the month's balance decreases by A
\* (the payment leaves the realized cash) and pendingCardBills decreases by A.
C8_PaidCardBillLowersBalance ==
  [][\A i \in DOMAIN expenses :
       CardBillMoved(i, "pending", "done")
         => /\ balance(IncomesWithAfter(i), ExpensesWithAfter(i)) =
                 balance(IncomesWith(i), ExpensesWith(i)) - expenses[i].amount
            /\ pendingCardBills(ExpensesWithAfter(i)) =
                 pendingCardBills(ExpensesWith(i)) - expenses[i].amount]_vars

\* C8 happens: the only pending card bill of the month, of 45000, was marked
\* done; pendingCardBills dropped to 0.
C8_Witness ==
  /\ ledgerRun.stage = "paid" /\ ledgerRun.amount = 45000
  /\ last = [op |-> "patchExpenseStatus", code |-> 200]
  /\ \E ym \in LedgerMonths :
       /\ pendingCardBills(RowsOfMonth(expenses, ym)) = 0
       /\ Totals(ym).cardsTotal = 45000

\* What C9 says of one set of totals of the month.
NeedIdentity(t, ym) ==
  LET incs == RowsOfMonth(incomes, ym)
      exps == RowsOfMonth(expenses, ym)
  IN /\ t.balance = paidIncomeTotal(incs) - paidCardExpenses(exps) - paidNonCardExpenses(exps)
     /\ t.need = Max(0, (pendingCardBills(exps) + pendingNonCardExpenses(exps)) - t.balance)
     /\ t.need >= 0
     /\ (/\ incomeTotal(incs) = 180000 /\ paidIncomeTotal(incs) = 0
         /\ pendingNonCardExpenses(exps) = 91500 /\ totalExpenses(exps) = 91500)
          => (t.balance = 0 /\ t.need = 91500)
     /\ (/\ paidIncomeTotal(incs) = 180000
         /\ paidCardExpenses(exps) = 77000 /\ totalExpenses(exps) = 77000)
          => (t.balance = 103000 /\ t.need = 0)

\* C9: for every set of incomes and expenses the month totals satisfy
\* balance = paidIncomeTotal - paidCardExpenses - paidNonCardExpenses and
\* need = max(0, (pendingCardBills + pendingNonCardExpenses) - balance), so need
\* is never negative; income 180000 pending with 91500 of pending non-card
\* expenses gives balance 0 and need 91500, and income 180000 done with card
\* bills 45000 and 32000 both done gives balance 103000 and need 0.  Stated of
\* the totals of both revisions of the handler.
C9_BalanceAndNeed ==
  \A ym \in LedgerMonths :
    NeedIdentity(Totals(ym), ym) /\ NeedIdentity(TotalsApi(ym), ym)

(***************************************************************************)
(* CardsList.tsx, calculateDates: the statement and due date of a card for *)
(* the month on screen, from the first statement date and the cycle length.*)
(***************************************************************************)
maxIterations == 1000

\* date comparison: a <= b
DateLeq(a, b) == DaysFromCivil(a[1], a[2], a[3]) <= DaysFromCivil(b[1], b[2], b[3])

\* new Date(currentYear, currentMonth - 1, 1) and new Date(currentYear, currentMonth, 0)
targetMonthStart(ym) == <<ym[1], ym[2], 1>>
targetMonthEnd(ym) == <<ym[1], ym[2], getDaysInMonth(ym[1], ym[2])>>

\* The cards and the months the dates are computed for.
CycleCards ==
  [firstStatementDate : {<<2025, 1, 16>>, <<2025, 3, 1>>},
   dayDifference : {15, 20},
   billingCycleDays : {0 - 30, 1, 28, 30, 31}]
CycleTargets ==
  {<<2024, 12>>, <<2025, 1>>, <<2025, 2>>, <<2025, 3>>, <<2025, 4>>, <<2025, 7>>,
   <<2026, 2>>, <<2028, 6>>}

\* The tables and recorders of a freshly installed server.
EmptyServer ==
  /\ budgets = << >>
  /\ incomes = << >>
  /\ expenses = << >>
  /\ cardStatements = << >>
  /\ nextId = [budget |-> 1, income |-> 1, expense |-> 1, statement |-> 1]
  /\ last = [op |-> "none", code |-> 0]
  /\ ledgerRun = NoLedgerRun
  /\ cashRun = NoCashRun
  /\ requests = NoRequests

InitCycle ==
  /\ EmptyServer
  /\ \E card \in CycleCards, ym \in CycleTargets :
       client = [pc |-> "call", card |-> card, target |-> ym]

\* From the call to the head of the loop.
CalculateDatesEnter ==
  /\ client.pc = "call"
  /\ client' = [pc |-> "loop", card |-> client.card, target |-> client.target,
                statementDate |-> client.card.firstStatementDate,
                dueDate |-> AddDays(client.card.firstStatementDate,
                                    client.card.dayDifference),
                iteration |-> 0]
  /\ UNCHANGED <<tables, nextId, last, ledgerRun, cashRun, requests>>

\* One pass through while (iteration < maxIterations) { ... }
CalculateDatesLoop ==
  /\ client.pc = "loop"
  /\ client' =
       IF ~(client.iteration < maxIterations)
       THEN [client EXCEPT !.pc = "done"]
       ELSE IF /\ DateLeq(targetMonthStart(client.target), client.dueDate)
               /\ DateLeq(client.dueDate, targetMonthEnd(client.target))
       THEN [client EXCEPT !.pc = "done"]
       ELSE IF ~DateLeq(client.dueDate, targetMonthEnd(client.target))
       THEN [client EXCEPT
               !.pc = "done",
               !.statementDate = AddDays(@, 0 - client.card.billingCycleDays),
               !.dueDate = AddDays(@, 0 - client.card.billingCycleDays)]
       ELSE [client EXCEPT
               !.statementDate = AddDays(@, client.card.billingCycleDays),
               !.dueDate = AddDays(@, client.card.billingCycleDays),
               !.iteration = @ + 1]
  /\ UNCHANGED <<tables, nextId, last, ledgerRun, cashRun, requests>>

NextCycle == CalculateDatesEnter \/ CalculateDatesLoop

SpecCycle == InitCycle /\ [][NextCycle]_vars

\* C6: for any card that has a first statement date and a positive cycle
\* length, and for any target month, the anchor-based prediction returns a
\* statement/due date pair whose due date lies between the first and the last
\* day of the target month inclusive, target months before the anchor and
\* months no cycle's due date falls into included.
C6_DueDateInTargetMonth ==
  (client.pc = "done" /\ client.card.billingCycleDays > 0) =>
    /\ DateLeq(targetMonthStart(client.target), client.dueDate)
    /\ DateLeq(client.dueDate, targetMonthEnd(client.target))

\* C15: the prediction loop never makes more than maxIterations (1000)
\* passes, and a prediction that used up all of them without reaching a due
\* date in the target month (a negative cycle length, or a cycle too short to
\* reach the month in 1000 steps) does not return a statement/due date pair:
\* it fails instead.
C15_CapExhaustionFails ==
  /\ client.pc \in {"loop", "done"} => client.iteration <= maxIterations
  /\ ~(/\ client.pc = "done"
       /\ client.iteration = maxIterations
       /\ ~(/\ DateLeq(targetMonthStart(client.target), client.dueDate)
            /\ DateLeq(client.dueDate, targetMonthEnd(client.target))))

(***************************************************************************)
(* CashOutPlanner.tsx: the suggestion shown when the planner opens.        *)
(***************************************************************************)
\* a.localeCompare(b) on two dates written YYYY-MM-DD: the fields are of fixed
\* width, so the strings compare field by field.
localeCompare(a, b) ==
  IF a[1] # b[1] THEN (IF a[1] < b[1] THEN 0 - 1 ELSE 1)
  ELSE IF a[2] # b[2] THEN (IF a[2] < b[2] THEN 0 - 1 ELSE 1)
  ELSE IF a[3] # b[3] THEN (IF a[3] < b[3] THEN 0 - 1 ELSE 1)
  ELSE 0

\* A comparator that looks at the available limit only (larger first).
compareLimits(a, b) == b.availableLimit - a.availableLimit

\* A comparator that looks at the due date only (later first).
compareDueDates(a, b) == localeCompare(b.dueDate, a.dueDate)

\* The comparator of both sorts: later due date first, then larger limit.
compareCards(a, b) ==
  LET dateCompare == localeCompare(b.dueDate, a.dueDate)
  IN IF dateCompare # 0 THEN dateCompare ELSE b.availableLimit - a.availableLimit

\* [...cards].sort(compareCards): Array.prototype.sort is stable, so a card
\* goes behind every card that does not compare greater than it.
RECURSIVE InsertCard(_, _)
InsertCard(sorted, card) ==
  IF sorted = << >> THEN <<card>>
  ELSE IF compareCards(Head(sorted), card) <= 0
       THEN <<Head(sorted)>> \o InsertCard(Tail(sorted), card)
       ELSE <<card>> \o sorted

RECURSIVE sortCards(_)
sortCards(cards) ==
  IF cards = << >> THEN << >>
  ELSE InsertCard(sortCards(SubSeq(cards, 1, Len(cards) - 1)), cards[Len(cards)])

\* for (const card of sortedCards) { ... }: the entries put into the
\* withdrawals object, in the order they are put.
RECURSIVE Consume(_, _)
Consume(sortedCards, remaining) ==
  IF sortedCards = << >> \/ remaining <= 0 THEN << >>
  ELSE LET card == Head(sortedCards)
           amount == Min(remaining, card.availableLimit)
       IN IF amount > 0
          THEN <<[cardId |-> card.id, amount |-> amount]>>
                 \o Consume(Tail(sortedCards), remaining - amount)
          ELSE Consume(Tail(sortedCards), remaining)

suggestPlan(cards, needed, maxBalance) ==
  IF needed <= 0 THEN [suggestedBalance |-> 0, suggestedWithdrawals |-> << >>]
  ELSE LET balanceToUse == Min(needed, maxBalance)
           remaining == needed - balanceToUse
       IN [suggestedBalance |-> balanceToUse,
           suggestedWithdrawals |->
             IF remaining > 0 /\ Len(cards) > 0
             THEN Consume(sortCards(cards), remaining)
             ELSE << >>]

\* The planner without the balance step (second copy of the component).
suggestWithdrawals(cards, needed) ==
  IF Len(cards) = 0 \/ needed <= 0 THEN << >>
  ELSE Consume(sortCards(cards), needed)

\* The cards offered to the planner, their limits and due dates.
PlanCardPool ==
  { [id |-> 1, availableLimit |-> 100000, dueDate |-> <<2025, 12, 20>>],
    [id |-> 2, availableLimit |-> 50000,  dueDate |-> <<2025, 12, 25>>],
    [id |-> 3, availableLimit |-> 95000,  dueDate |-> <<2025, 12, 20>>],
    [id |-> 4, availableLimit |-> 95000,  dueDate |-> <<2025, 12, 28>>] }
PlanNeeds == {0, 60000, 120000, 400000}
PlanBalances == {0 - 5000, 0, 20000}

\* The lists of at most MaxPlanCards distinct cards of the pool.
PlanCardLists ==
  {cs \in UNION {[1..n -> PlanCardPool] : n \in 0..MaxPlanCards} :
     \A i, j \in DOMAIN cs : i # j => cs[i].id # cs[j].id}

InitPlan ==
  /\ EmptyServer
  /\ \E cs \in PlanCardLists, n \in PlanNeeds, b \in PlanBalances :
       client = [pc |-> "call", cards |-> cs, need |-> n, maxBalance |-> b]

SuggestPlan ==
  /\ client.pc = "call"
  /\ client' =
       LET plan == suggestPlan(client.cards, client.need, client.maxBalance)
       IN [pc |-> "suggestPlan", cards |-> client.cards, need |-> client.need,
           maxBalance |-> client.maxBalance,
           balance |-> plan.suggestedBalance,
           withdrawals |-> plan.suggestedWithdrawals]
  /\ UNCHANGED <<tables, nextId, last, ledgerRun, cashRun, requests>>

SuggestWithdrawals ==
  /\ client.pc = "call"
  /\ client' =
       [pc |-> "suggestWithdrawals", cards |-> client.cards, need |-> client.need,
        maxBalance |-> client.maxBalance, balance |-> 0,
        withdrawals |-> suggestWithdrawals(client.cards, client.need)]
  /\ UNCHANGED <<tables, nextId, last, ledgerRun, cashRun, requests>>

NextPlan == SuggestPlan \/ SuggestWithdrawals

SpecPlan == InitPlan /\ [][NextPlan]_vars

\* The card of the list with the id.
PlanCard(id) == client.cards[CHOOSE i \in DOMAIN client.cards : client.cards[i].id = id]

\* The cards consumed after position i of the suggestion, or not at all.
NotConsumedBy(i) ==
  {c \in Range(client.cards) :
     \A k \in 1..i : client.withdrawals[k].cardId # c.id}

\* Every consumed card stands in the relation to every card consumed later
\* or not at all.
ConsumedInOrder(Before(_, _)) ==
  client.pc \in {"suggestPlan", "suggestWithdrawals"} =>
    \A i \in DOMAIN client.withdrawals :
      \A c \in NotConsumedBy(i) : Before(PlanCard(client.withdrawals[i].cardId), c)

\* The limits of two cards are within 10% of the larger one.
Within10Percent(a, b) ==
  10 * (Max(a.availableLimit, b.availableLimit) - Min(a.availableLimit, b.availableLimit))
    <= Max(a.availableLimit, b.availableLimit)

\* a may come before b: larger limit first, the later due date only deciding
\* between limits within 10%.
LimitThenDueDate(a, b) ==
  IF Within10Percent(a, b) THEN localeCompare(a.dueDate, b.dueDate) >= 0
  ELSE a.availableLimit > b.availableLimit

\* a may come before b: later due date first, then larger limit.
DueDateThenLimit(a, b) ==
  \/ localeCompare(a.dueDate, b.dueDate) > 0
  \/ localeCompare(a.dueDate, b.dueDate) = 0 /\ a.availableLimit >= b.availableLimit

\* C10 as stated: suggestPlan orders the candidate cards primarily by
\* available limit descending and prefers the later due date only when two
\* limits are within 10% of the larger one, so a card with a clearly larger
\* limit is consumed before a card with a later due date.
C10_LimitFirst == ConsumedInOrder(LimitThenDueDate)

\* C10 as the code has it: suggestPlan (and suggestWithdrawals) orders the
\* candidate cards primarily by due date descending and, between cards of
\* equal due date, by available limit descending, so a card with a later due
\* date is consumed before a card with a larger limit.
C10_DueDateFirst == ConsumedInOrder(DueDateThenLimit)

\* C10 happens: a suggestion consumed a card with a later due date before a
\* card whose limit is more than 10% larger.
C10_Witness ==
  /\ client.pc = "suggestPlan"
  /\ Len(client.withdrawals) >= 2
  /\ LET a == PlanCard(client.withdrawals[1].cardId)
         b == PlanCard(client.withdrawals[2].cardId)
     IN /\ localeCompare(a.dueDate, b.dueDate) > 0
        /\ a.availableLimit < b.availableLimit
        /\ ~Within10Percent(a, b)

\* C11: the smart withdrawal suggestion takes cards with later due dates
\* first and uses the larger available limit only as the secondary criterion,
\* among cards with the same due date.
C11_LaterDueDateThenLargerLimit ==
  client.pc \in {"suggestPlan", "suggestWithdrawals"} =>
    \A i, j \in DOMAIN client.withdrawals :
      i < j =>
        LET a == PlanCard(client.withdrawals[i].cardId)
            b == PlanCard(client.withdrawals[j].cardId)
        IN \/ localeCompare(a.dueDate, b.dueDate) > 0
           \/ /\ a.dueDate = b.dueDate
              /\ a.availableLimit >= b.availableLimit

\* C11 happens: two cards with the same due date were both used, the one with
\* the larger limit first although it was listed after the other.
C11_Witness ==
  /\ client.pc = "suggestPlan"
  /\ \E i, j \in DOMAIN client.withdrawals :
       /\ i < j
       /\ LET a == PlanCard(client.withdrawals[i].cardId)
              b == PlanCard(client.withdrawals[j].cardId)
          IN /\ a.dueDate = b.dueDate
             /\ a.availableLimit > b.availableLimit
             /\ \E k, l \in DOMAIN client.cards :
                  k < l /\ client.cards[k] = b /\ client.cards[l] = a

\* The sum of the suggested card withdrawals and of the available limits.
SuggestedTotal == SumSeq([i \in DOMAIN client.withdrawals |-> client.withdrawals[i].amount])
LimitsTotal == SumSeq([i \in DOMAIN client.cards |-> client.cards[i].availableLimit])

\* C12: for every need > 0 and every list of cards the suggestion takes from
\* each card, in sorted order, min(remaining need, available limit) and stops
\* when the need or the cards are exhausted: no suggested withdrawal exceeds
\* its card's available limit, and the card withdrawals sum to exactly
\* min(need left for the cards, sum of the available limits), never more than
\* the need, also when the account balance passed in is negative.  The need
\* left for the cards is the need less the balance the suggestion uses, a
\* balance that is never counted below zero.
C12_GreedyCoversNeedExactly ==
  (client.pc \in {"suggestPlan", "suggestWithdrawals"} /\ client.need > 0) =>
    /\ \A i \in DOMAIN client.withdrawals :
         /\ client.withdrawals[i].amount > 0
         /\ client.withdrawals[i].amount
              <= PlanCard(client.withdrawals[i].cardId).availableLimit
    /\ SuggestedTotal = Min(client.need - Max(0, client.balance), LimitsTotal)
    /\ SuggestedTotal <= client.need

\* C13: a cash-out plan with a withdrawal above its card's available limit
\* (totalLimit - pending dues of the viewed month - cash-out already taken
\* against the card in the month) is never applied: the request is rejected,
\* no income row is created or changed and balanceUsed keeps its value, also
\* when the limit had been used up by an earlier application.
C13_OverLimitPlanRejected ==
  [][\A ym \in LedgerMonths, w \in Plans :
       (/\ ApplyCashOut(ym, w)
        /\ \E i \in DOMAIN w : w[i].amount > availableLimit(w[i].cardId, ym))
         => /\ last'.code # 200
            /\ incomes' = incomes
            /\ BalanceUsed(ym)' = BalanceUsed(ym)]_vars

\* The withdrawals of a plan with an amount above 0.
PositiveWithdrawals(w) == SelectSeq(w, LAMBDA x : x.amount > 0)

\* C14: applying a plan acts only on its withdrawals with amount > 0: the
\* incomes after the request are those the plan without its zero withdrawals
\* produces (a zero withdrawal creates no income row and changes none), and
\* balanceUsed grows by the positive amounts only.
C14_OnlyPositiveWithdrawalsApplied ==
  [][\A ym \in LedgerMonths, w \in Plans :
       ApplyCashOut(ym, w)
         => /\ incomes' = ApplyWithdrawals(PositiveWithdrawals(w), incomes,
                                           nextId.income, GetOrCreateBudget(ym)[2]).rows
            /\ BalanceUsed(ym)' = BalanceUsed(ym) + SumAmounts(PositiveWithdrawals(w))]_vars

\* The number of pending recurring incomes among rows with the source and amount.
CountIncomes(rows, source, amount) ==
  Len(SelectSeq(rows, LAMBDA inc :
        /\ inc.source = source /\ inc.amount = amount
        /\ inc.recurring /\ inc.status = "pending"))

\* The number of pending recurring expenses among rows with the label and amount.
CountExpenses(rows, label, amount) ==
  Len(SelectSeq(rows, LAMBDA exp :
        /\ exp.label = label /\ exp.amount = amount
        /\ exp.recurring /\ exp.status = "pending"))

\* The incomes and the expenses of the month after ym once create-next has run.
NextMonthIncomes(ym) ==
  OfBudget(incomes', budgets'[getBudget(budgets', NextMonth(ym))].id)
NextMonthExpenses(ym) ==
  OfBudget(expenses', budgets'[getBudget(budgets', NextMonth(ym))].id)

\* Create-next made the budget of the month after ym, with one pending
\* recurring copy of every recurring income of ym and nothing else.
IncomesCopied(ym) ==
  /\ getBudget(budgets', NextMonth(ym)) # 0
  /\ \A i \in DOMAIN RowsOfMonth(incomes, ym) :
       LET inc == RowsOfMonth(incomes, ym)[i]
       IN inc.recurring =>
            CountIncomes(NextMonthIncomes(ym), inc.source, inc.amount)
              = Len(SelectSeq(RowsOfMonth(incomes, ym), LAMBDA r :
                      r.recurring /\ r.source = inc.source /\ r.amount = inc.amount))
  /\ Len(NextMonthIncomes(ym)) = Len(getRecurringIncomes(ym))

\* Create-next made exactly one pending LOAN expense per loan.
LoansMaterialized(ym) ==
  \A k \in DOMAIN loans :
    Len(SelectSeq(NextMonthExpenses(ym), LAMBDA exp :
          /\ exp.kind = "LOAN" /\ exp.linkedLoanId = loans[k].id
          /\ exp.label = loans[k].name /\ exp.amount = loans[k].installmentAmount
          /\ exp.status = "pending")) = 1

\* Create-next added one zeroed pending statement of the month after ym for
\* every card, and touched no other statement.
StatementsAdded(ym) ==
  LET added == SubSeq(cardStatements', Len(cardStatements) + 1, Len(cardStatements'))
  IN /\ SubSeq(cardStatements', 1, Len(cardStatements)) = cardStatements
     /\ Len(added) = Len(creditCards)
     /\ \A c \in CardIds : Len(StatementsOf(added, c, NextMonth(ym))) = 1
     /\ \A i \in DOMAIN added :
          added[i].totalDue = 0 /\ added[i].status = "pending" /\ added[i].paidDate = Null

StatementMonths == {<<2024, 2>>, <<2025, 2>>}

NextStatements ==
  \/ \E ym \in StatementMonths : GetBudget(ym)
  \/ \E c \in CardIds, ym \in StatementMonths : GetCardStatements(c, ym)
  \/ \E ym \in StatementMonths : CreateNext(PrevMonth(ym))

SpecStatements == Init /\ [][NextStatements]_vars

\* The number of days of a month, counted from the 1st to the next 1st.
DaysBetweenFirsts(year, month) ==
  DaysFromCivil(NextMonth(<<year, month>>)[1], NextMonth(<<year, month>>)[2], 1)
    - DaysFromCivil(year, month, 1)

\* A date of the calendar.
IsCivilDate(date) ==
  /\ date[2] \in 1..12
  /\ date[3] \in 1..DaysBetweenFirsts(date[1], date[2])

\* C16: the statement created for a month by the day-of-month rule is dated
\* day min(statementDay, number of days of the month) of that month: a card
\* with statementDay 31 gets February 28 in a common year and February 29 in
\* a leap year; the due date is the calendar date dayDifference days after
\* the statement date, in the following month where it crosses the month end.
C16_StatementDayClamped ==
  \A i \in DOMAIN cardStatements :
    LET stmt == cardStatements[i]
        card == creditCards[IndexById(creditCards, stmt.cardId)]
        days == DaysBetweenFirsts(stmt.year, stmt.month)
    IN /\ stmt.statementDate =
            <<stmt.year, stmt.month,
              IF card.statementDay <= days THEN card.statementDay ELSE days>>
       /\ (card.statementDay = 31 /\ stmt.month = 2) =>
            stmt.statementDate[3] = (IF stmt.year = 2024 THEN 29 ELSE 28)
       /\ IsCivilDate(stmt.dueDate)
       /\ DaysFromCivil(stmt.dueDate[1], stmt.dueDate[2], stmt.dueDate[3])
            - DaysFromCivil(stmt.statementDate[1], stmt.statementDate[2],
                            stmt.statementDate[3])
          = card.dayDifference

\* C16 happens: the card with statementDay 31 has a statement dated February 29
\* 2024 made by its statement view and one dated February 28 2025 made by
\* create-next, both due on March 20.
C16_Witness ==
  /\ \E i \in DOMAIN cardStatements :
       /\ cardStatements[i].cardId = 1
       /\ cardStatements[i].statementDate = <<2024, 2, 29>>
       /\ cardStatements[i].dueDate = <<2024, 3, 20>>
  /\ \E i \in DOMAIN cardStatements :
       /\ cardStatements[i].cardId = 1
       /\ cardStatements[i].statementDate = <<2025, 2, 28>>
       /\ cardStatements[i].dueDate = <<2025, 3, 20>>
  /\ last = [op |-> "createNext", code |-> 200]

\* The months statements are made for by the views and by create-next.
StatementKeys == StatementMonths \cup {PrevMonth(ym) : ym \in StatementMonths}

\* C17: the creation of statements is idempotent: after any sequence of
\* statement views and create-next calls there is at most one statement per
\* (cardId, year, month), and a statement view leaves every statement that
\* existed before it as it was (dates, totalDue, status, paidDate).
C17_OneStatementPerCardAndMonth ==
  [][/\ \A c \in CardIds, ym \in StatementKeys :
          Len(StatementsOf(cardStatements', c, ym)) <= 1
     /\ \A c \in CardIds, ym \in StatementMonths :
          GetCardStatements(c, ym) =>
            \A i \in DOMAIN cardStatements : cardStatements'[i] = cardStatements[i]]_vars

\* C18: when the month totals have been served for a month, a budget exists
\* for the month and every credit card has a statement for the month: the
\* request creates the missing ones.
C18_TotalsCreateBudgetAndStatements ==
  [][\A ym \in StatementMonths :
       GetBudget(ym)
         => /\ getBudget(budgets', ym) # 0
            /\ \A c \in CardIds : HasStatement(cardStatements', c, ym)]_vars

(***************************************************************************)
(* storage.ts, copyRecurringIncomeToFutureMonths and                       *)
(* copyRecurringExpenseToFutureMonths, called on tables that hold budgets  *)
(* of two users, before and after the month of the item.                   *)
(***************************************************************************)
\* The budgets the copies are tried on, in the order they were created.
PropagateBudgets ==
  << [id |-> 1, userId |-> userId, year |-> 2026, month |-> 2, balanceUsed |-> 0],
     [id |-> 2, userId |-> userId, year |-> 2025, month |-> 11, balanceUsed |-> 0],
     [id |-> 3, userId |-> userId + 1, year |-> 2026, month |-> 1, balanceUsed |-> 0],
     [id |-> 4, userId |-> userId, year |-> 2026, month |-> 1, balanceUsed |-> 0],
     [id |-> 5, userId |-> userId, year |-> 2025, month |-> 12, balanceUsed |-> 0] >>

PropagateMonths == {<<2025, 12>>, <<2026, 1>>}

\* The incomes and expenses the tables hold before the first copy.
PropagateIncomeTables ==
  { << >>,
    << IncomeRow(1, 4, <<"Salary">>, 180000, TRUE, "pending") >>,
    << IncomeRow(1, 1, <<"Salary">>, 180000, FALSE, "pending") >>,
    << IncomeRow(1, 3, <<"Salary">>, 180000, TRUE, "pending") >> }
PropagateExpenseTables ==
  { << >>,
    << ExpenseRow(1, 4, <<"Rent">>, 5000, TRUE, "REGULAR", NoId, NoId) >>,
    << ExpenseRow(1, 4, <<"Car loan">>, 5000, TRUE, "LOAN", NoId, 1) >> }

\* The items copied.
PropagateIncomes == [source : {<<"Salary">>}, amount : {5000, 180000}]
PropagateExpenses == [label : {<<"Rent">>, <<"Car loan">>}, amount : {5000}]

InitPropagate ==
  /\ budgets = PropagateBudgets
  /\ incomes \in PropagateIncomeTables
  /\ expenses \in PropagateExpenseTables
  /\ cardStatements = << >>
  /\ nextId = [budget |-> Len(PropagateBudgets) + 1, income |-> Len(incomes) + 1,
               expense |-> Len(expenses) + 1, statement |-> 1]
  /\ last = [op |-> "none", code |-> 0]
  /\ ledgerRun = NoLedgerRun
  /\ cashRun = NoCashRun
  /\ client = NoClient
  /\ requests = NoRequests

CopyRecurringIncomeToFutureMonths(ym, income) ==
  LET after == copyRecurringIncome(futureBudgets(budgets, ym), incomes,
                                   nextId.income, income)
  IN /\ incomes' = after
     /\ nextId' = [nextId EXCEPT !.income = @ + (Len(after) - Len(incomes))]
     /\ UNCHANGED <<budgets, expenses, cardStatements>>
     /\ Served("copyRecurringIncome", 200)
     /\ ledgerRun' = NoLedgerRun
     /\ cashRun' = NoCashRun

CopyRecurringExpenseToFutureMonths(ym, expense) ==
  LET after == copyRecurringExpense(futureBudgets(budgets, ym), expenses,
                                    nextId.expense, expense)
  IN /\ expenses' = after
     /\ nextId' = [nextId EXCEPT !.expense = @ + (Len(after) - Len(expenses))]
     /\ UNCHANGED <<budgets, incomes, cardStatements>>
     /\ Served("copyRecurringExpense", 200)
     /\ ledgerRun' = NoLedgerRun
     /\ cashRun' = NoCashRun

NextPropagate ==
  \/ \E ym \in PropagateMonths, income \in PropagateIncomes :
       CopyRecurringIncomeToFutureMonths(ym, income)
  \/ \E ym \in PropagateMonths, expense \in PropagateExpenses :
       CopyRecurringExpenseToFutureMonths(ym, expense)

SpecPropagate == InitPropagate /\ [][NextPropagate]_vars

\* The budget with the id is a budget of the user strictly after the month.
StrictlyAfter(budgetId, ym) ==
  \E i \in DOMAIN budgets :
    /\ budgets[i].id = budgetId
    /\ budgets[i].userId = userId
    /\ budgets[i].year * 12 + budgets[i].month > ym[1] * 12 + ym[2]

\* A copy of an income left every row where it was and added only pending
\* recurring copies of it to budgets of the user strictly after the month that
\* held no recurring income of the source; a second copy adds nothing.
IncomeForwardFilled(ym, income) ==
  /\ SubSeq(incomes', 1, Len(incomes)) = incomes
  /\ \A i \in (Len(incomes) + 1)..Len(incomes') :
       /\ StrictlyAfter(incomes'[i].budgetId, ym)
       /\ incomes'[i].source = income.source /\ incomes'[i].amount = income.amount
       /\ incomes'[i].recurring /\ incomes'[i].status = "pending"
       /\ \A j \in 1..(i - 1) :
            ~(/\ incomes'[j].budgetId = incomes'[i].budgetId
              /\ incomes'[j].source = income.source /\ incomes'[j].recurring)
  /\ copyRecurringIncome(futureBudgets(budgets', ym), incomes', nextId'.income, income)
       = incomes'

\* The same for an expense; SameItem(row) tells the rows that stand for the
\* item in a budget.
ExpenseForwardFilled(ym, expense, SameItem(_)) ==
  /\ SubSeq(expenses', 1, Len(expenses)) = expenses
  /\ \A i \in (Len(expenses) + 1)..Len(expenses') :
       /\ StrictlyAfter(expenses'[i].budgetId, ym)
       /\ expenses'[i].label = expense.label /\ expenses'[i].amount = expense.amount
       /\ expenses'[i].recurring /\ expenses'[i].status = "pending"
       /\ \A j \in 1..(i - 1) :
            ~(expenses'[j].budgetId = expenses'[i].budgetId /\ SameItem(expenses'[j]))
  /\ copyRecurringExpense(futureBudgets(budgets', ym), expenses', nextId'.expense, expense)
       = expenses'

RaceMonth == <<2025, 12>>
RaceSource == <<"Salary">>
RaceAmount == 180000

\* The tables the two requests start on: with or without the budget of the
\* month, and with or without an older recurring income in it.
InitRace ==
  /\ \E hasBudget \in BOOLEAN, hasIncome \in BOOLEAN :
       /\ hasIncome => hasBudget
       /\ budgets = IF hasBudget THEN createBudget(<< >>, 1, RaceMonth) ELSE << >>
       /\ incomes = IF hasIncome
                    THEN << IncomeRow(1, 1, <<"Bonus">>, 5000, TRUE, "pending") >>
                    ELSE << >>
       /\ nextId = [budget |-> IF hasBudget THEN 2 ELSE 1,
                    income |-> IF hasIncome THEN 2 ELSE 1,
                    expense |-> 1, statement |-> 1]
  /\ expenses = << >>
  /\ cardStatements = << >>
  /\ last = [op |-> "none", code |-> 0]
  /\ ledgerRun = NoLedgerRun
  /\ cashRun = NoCashRun
  /\ client = NoClient
  /\ requests =
       [pc |-> "race",
        post |-> [pc |-> "getBudget", budgetId |-> NoId, incomeId |-> NoId,
                  future |-> << >>],
        next |-> [pc |-> "existingBudget", newBudget |-> NoId,
                  recurringIncomes |-> << >>]]

\* What a storage call of one of the two requests leaves alone.
RaceFrame == UNCHANGED <<ledgerRun, cashRun, client>>

\* let budget = await storage.getBudget(userId, year, month)
PostIncomeGetBudget ==
  /\ requests.pc = "race" /\ requests.post.pc = "getBudget"
  /\ LET i == getBudget(budgets, RaceMonth)
     IN requests' =
          IF i = 0 THEN [requests EXCEPT !.post.pc = "createBudget"]
          ELSE [requests EXCEPT !.post.pc = "createIncome",
                                !.post.budgetId = budgets[i].id]
  /\ UNCHANGED <<tables, nextId, last>>
  /\ RaceFrame

\* budget = await storage.createBudget({ userId, year, month })
PostIncomeCreateBudget ==
  /\ requests.pc = "race" /\ requests.post.pc = "createBudget"
  /\ budgets' = createBudget(budgets, nextId.budget, RaceMonth)
  /\ nextId' = [nextId EXCEPT !.budget = @ + 1]
  /\ requests' = [requests EXCEPT !.post.pc = "createIncome",
                                  !.post.budgetId = nextId.budget]
  /\ UNCHANGED <<incomes, expenses, cardStatements, last>>
  /\ RaceFrame

\* const income = await storage.createIncome({...})
PostIncomeCreateIncome ==
  /\ requests.pc = "race" /\ requests.post.pc = "createIncome"
  /\ incomes' = Append(incomes, IncomeRow(nextId.income, requests.post.budgetId,
                                          RaceSource, RaceAmount, TRUE, "pending"))
  /\ nextId' = [nextId EXCEPT !.income = @ + 1]
  /\ requests' = [requests EXCEPT !.post.pc = "allBudgets",
                                  !.post.incomeId = nextId.income]
  /\ UNCHANGED <<budgets, expenses, cardStatements, last>>
  /\ RaceFrame

\* copyRecurringIncomeToFutureMonths: const allBudgets = await db.select()...
\* and the filter to the future months
PostIncomeAllBudgets ==
  /\ requests.pc = "race" /\ requests.post.pc = "allBudgets"
  /\ requests' = [requests EXCEPT !.post.pc = "existingIncomes",
                                  !.post.future = futureBudgets(budgets, RaceMonth)]
  /\ UNCHANGED <<tables, nextId, last>>
  /\ RaceFrame

\* for (const futureBudget of futureBudgets):
\*   const existingIncomes = await db.select()...
PostIncomeExistingIncomes ==
  /\ requests.pc = "race" /\ requests.post.pc = "existingIncomes"
  /\ IF requests.post.future = << >>
     THEN /\ requests' = [requests EXCEPT !.post.pc = "done"]
          /\ last' = [op |-> "postIncome", code |-> 200]
     ELSE LET b == Head(requests.post.future)
              existingIncomes == SelectSeq(incomes, LAMBDA r :
                                   r.budgetId = b.id /\ r.source = RaceSource /\ r.recurring)
          IN /\ requests' =
                  IF existingIncomes = << >>
                  THEN [requests EXCEPT !.post.pc = "copy"]
                  ELSE [requests EXCEPT !.post.future = Tail(@)]
             /\ UNCHANGED last
  /\ UNCHANGED <<tables, nextId>>
  /\ RaceFrame

\*   if (existingIncomes.length === 0) await this.createIncome({...})
PostIncomeCopy ==
  /\ requests.pc = "race" /\ requests.post.pc = "copy"
  /\ incomes' = Append(incomes, IncomeRow(nextId.income, Head(requests.post.future).id,
                                          RaceSource, RaceAmount, TRUE, "pending"))
  /\ nextId' = [nextId EXCEPT !.income = @ + 1]
  /\ requests' = [requests EXCEPT !.post.pc = "existingIncomes",
                                  !.post.future = Tail(@)]
  /\ UNCHANGED <<budgets, expenses, cardStatements, last>>
  /\ RaceFrame

\* const existingBudget = await storage.getBudget(userId, nextYear, nextMonth)
CreateNextExistingBudget ==
  /\ requests.pc = "race" /\ requests.next.pc = "existingBudget"
  /\ IF existingBudget(RaceMonth) # 0
     THEN /\ requests' = [requests EXCEPT !.next.pc = "done"]
          /\ last' = [op |-> "createNext", code |-> 400]
     ELSE /\ requests' = [requests EXCEPT !.next.pc = "createBudget"]
          /\ UNCHANGED last
  /\ UNCHANGED <<tables, nextId>>
  /\ RaceFrame

\* const newBudget = await storage.createBudget({...})
CreateNextCreateBudget ==
  /\ requests.pc = "race" /\ requests.next.pc = "createBudget"
  /\ budgets' = createBudget(budgets, nextId.budget, NextMonth(RaceMonth))
  /\ nextId' = [nextId EXCEPT !.budget = @ + 1]
  /\ requests' = [requests EXCEPT !.next.pc = "getRecurringIncomes",
                                  !.next.newBudget = nextId.budget]
  /\ UNCHANGED <<incomes, expenses, cardStatements, last>>
  /\ RaceFrame

\* const recurringIncomes = await storage.getRecurringIncomes(userId, year, month)
CreateNextGetRecurringIncomes ==
  /\ requests.pc = "race" /\ requests.next.pc = "getRecurringIncomes"
  /\ requests' = [requests EXCEPT !.next.pc = "copyIncomes",
                                  !.next.recurringIncomes = getRecurringIncomes(RaceMonth)]
  /\ UNCHANGED <<tables, nextId, last>>
  /\ RaceFrame

\* for (const income of recurringIncomes) await storage.createIncome({...})
CreateNextCopyIncome ==
  /\ requests.pc = "race" /\ requests.next.pc = "copyIncomes"
  /\ requests.next.recurringIncomes # << >>
  /\ LET income == Head(requests.next.recurringIncomes)
     IN incomes' = Append(incomes, IncomeRow(nextId.income, requests.next.newBudget,
                                             income.source, income.amount, TRUE, "pending"))
  /\ nextId' = [nextId EXCEPT !.income = @ + 1]
  /\ requests' = [requests EXCEPT !.next.recurringIncomes = Tail(@)]
  /\ UNCHANGED <<budgets, expenses, cardStatements, last>>
  /\ RaceFrame

\* The rest of create-next: the loan expenses and the statements of the cards
\* (the month holds no expense to copy).
CreateNextRest ==
  /\ requests.pc = "race" /\ requests.next.pc = "copyIncomes"
  /\ requests.next.recurringIncomes = << >>
  /\ expenses' = expenses \o
       [i \in 1..Len(loans) |->
          ExpenseRow(nextId.expense + i - 1, requests.next.newBudget, loans[i].name,
                     loans[i].installmentAmount, TRUE, "LOAN", NoId, loans[i].id)]
  /\ cardStatements' = cardStatements \o
       [i \in 1..Len(creditCards) |->
          NewStatement(nextId.statement + i - 1, creditCards[i], NextMonth(RaceMonth))]
  /\ nextId' = [nextId EXCEPT !.expense = @ + Len(loans),
                              !.statement = @ + Len(creditCards)]
  /\ requests' = [requests EXCEPT !.next.pc = "done"]
  /\ last' = [op |-> "createNext", code |-> 200]
  /\ UNCHANGED <<budgets, incomes>>
  /\ RaceFrame

NextRace ==
  \/ PostIncomeGetBudget
  \/ PostIncomeCreateBudget
  \/ PostIncomeCreateIncome
  \/ PostIncomeAllBudgets
  \/ PostIncomeExistingIncomes
  \/ PostIncomeCopy
  \/ CreateNextExistingBudget
  \/ CreateNextCreateBudget
  \/ CreateNextGetRecurringIncomes
  \/ CreateNextCopyIncome
  \/ CreateNextRest

SpecRace == InitRace /\ [][NextRace]_vars

\* C21: when the creation of a recurring income in month M runs together
\* with create-next from M, then in every interleaving of their storage calls
\* the budget of M+1 ends with at most one recurring row of that source.
C21_NoDuplicateCopyUnderRace ==
  (requests.pc = "race" /\ requests.post.pc = "done" /\ requests.next.pc = "done") =>
    Len(SelectSeq(RowsOfMonth(incomes, NextMonth(RaceMonth)), LAMBDA r :
          r.source = RaceSource /\ r.recurring)) <= 1

(***************************************************************************)
(* Two ledger requests on one statement in flight together: a POST expense *)
(* linked to the statement, and either a second one or the PATCH that      *)
(* marks an expense linked to it as paid.                                  *)
(***************************************************************************)
LedgerRaceMonth == <<2025, 12>>
LedgerRaceAmounts == {5000, 32000}
Handlers == {"a", "b"}

\* The tables the two requests start on: the December statement of card 1,
\* with or without a pending card bill of 45000 linked to it.
InitLedgerRace ==
  /\ budgets = createBudget(<< >>, 1, LedgerRaceMonth)
  /\ incomes = << >>
  /\ \E linked \in BOOLEAN, x \in LedgerRaceAmounts, y \in LedgerRaceAmounts,
        op \in {"link", "pay"} :
       /\ op = "pay" => linked
       /\ expenses = IF linked
                     THEN << ExpenseRow(1, 1, <<"Rent">>, 45000, FALSE, "CARD_BILL", 1, NoId) >>
                     ELSE << >>
       /\ cardStatements =
            << [NewStatement(1, creditCards[1], LedgerRaceMonth)
                  EXCEPT !.totalDue = IF linked THEN 45000 ELSE 0] >>
       /\ nextId = [budget |-> 2, income |-> 1,
                    expense |-> IF linked THEN 2 ELSE 1, statement |-> 2]
       /\ requests =
            [pc |-> "ledgerRace",
             before |-> IF linked THEN 45000 ELSE 0,
             a |-> [op |-> "link", pc |-> "getCardStatementById", amount |-> x,
                    expenseStatus |-> "none", currentTotalDue |-> 0],
             b |-> IF op = "link"
                   THEN [op |-> "link", pc |-> "getCardStatementById", amount |-> y,
                         expenseStatus |-> "none", currentTotalDue |-> 0]
                   ELSE [op |-> "pay", pc |-> "getExpenseById", amount |-> 45000,
                         expenseStatus |-> "none", currentTotalDue |-> 0]]
  /\ last = [op |-> "none", code |-> 0]
  /\ ledgerRun = NoLedgerRun
  /\ cashRun = NoCashRun
  /\ client = NoClient

\* POST expense: const statement = await storage.getCardStatementById(statementId)
LinkGetCardStatement(r) ==
  /\ requests.pc = "ledgerRace"
  /\ requests[r].op = "link" /\ requests[r].pc = "getCardStatementById"
  /\ requests' = [requests EXCEPT ![r].pc = "updateCardStatement",
                                  ![r].currentTotalDue = cardStatements[1].totalDue]
  /\ UNCHANGED <<tables, nextId, last>>
  /\ RaceFrame

\* POST expense: await storage.updateCardStatement(statement.id, {totalDue: newTotalDue})
LinkUpdateCardStatement(r) ==
  /\ requests.pc = "ledgerRace"
  /\ requests[r].op = "link" /\ requests[r].pc = "updateCardStatement"
  /\ cardStatements' =
       [cardStatements EXCEPT
          ![1].totalDue = LinkedTotalDue(requests[r].currentTotalDue, requests[r].amount)]
  /\ requests' = [requests EXCEPT ![r].pc = "createExpense"]
  /\ UNCHANGED <<budgets, incomes, expenses, nextId, last>>
  /\ RaceFrame

\* POST expense: const expense = await storage.createExpense({...})
LinkCreateExpense(r) ==
  /\ requests.pc = "ledgerRace"
  /\ requests[r].op = "link" /\ requests[r].pc = "createExpense"
  /\ expenses' = Append(expenses, ExpenseRow(nextId.expense, 1, <<"Rent">>,
                                             requests[r].amount, FALSE, "CARD_BILL",
                                             1, NoId))
  /\ nextId' = [nextId EXCEPT !.expense = @ + 1]
  /\ requests' = [requests EXCEPT ![r].pc = "done"]
  /\ last' = [op |-> "postExpense", code |-> 200]
  /\ UNCHANGED <<budgets, incomes, cardStatements>>
  /\ RaceFrame

\* PATCH status: const expense = await storage.getExpenseById(id)
PayGetExpense(r) ==
  /\ requests.pc = "ledgerRace"
  /\ requests[r].op = "pay" /\ requests[r].pc = "getExpenseById"
  /\ requests' = [requests EXCEPT ![r].pc = "getCardStatementById",
                                  ![r].expenseStatus = expenses[1].status]
  /\ UNCHANGED <<tables, nextId, last>>
  /\ RaceFrame

\* PATCH status: const statement = await storage.getCardStatementById(...)
PayGetCardStatement(r) ==
  /\ requests.pc = "ledgerRace"
  /\ requests[r].op = "pay" /\ requests[r].pc = "getCardStatementById"
  /\ requests' = [requests EXCEPT ![r].pc = "updateCardStatement",
                                  ![r].currentTotalDue = cardStatements[1].totalDue]
  /\ UNCHANGED <<tables, nextId, last>>
  /\ RaceFrame

\* PATCH status to done of a pending expense:
\* await storage.updateCardStatement(statement.id, {totalDue, status, paidDate})
PayUpdateCardStatement(r) ==
  /\ requests.pc = "ledgerRace"
  /\ requests[r].op = "pay" /\ requests[r].pc = "updateCardStatement"
  /\ cardStatements' =
       [cardStatements EXCEPT
          ![1].totalDue = PaidTotalDue(requests[r].currentTotalDue, requests[r].amount),
          ![1].status = "done",
          ![1].paidDate = Today]
  /\ requests' = [requests EXCEPT ![r].pc = "updateExpenseStatus"]
  /\ UNCHANGED <<budgets, incomes, expenses, nextId, last>>
  /\ RaceFrame

\* PATCH status: await storage.updateExpenseStatus(id, status)
PayUpdateExpenseStatus(r) ==
  /\ requests.pc = "ledgerRace"
  /\ requests[r].op = "pay" /\ requests[r].pc = "updateExpenseStatus"
  /\ expenses' = UpdateStatus(expenses, 1, "done")
  /\ requests' = [requests EXCEPT ![r].pc = "done"]
  /\ last' = [op |-> "patchExpenseStatus", code |-> 200]
  /\ UNCHANGED <<budgets, incomes, cardStatements, nextId>>
  /\ RaceFrame

NextLedgerRace ==
  \E r \in Handlers :
    \/ LinkGetCardStatement(r)
    \/ LinkUpdateCardStatement(r)
    \/ LinkCreateExpense(r)
    \/ PayGetExpense(r)
    \/ PayGetCardStatement(r)
    \/ PayUpdateCardStatement(r)
    \/ PayUpdateExpenseStatus(r)

SpecLedgerRace == InitLedgerRace /\ [][NextLedgerRace]_vars

\* C22: the changes of a statement's totalDue act as deltas: when two ledger
\* requests on the same statement run together (two card bills of X and Y
\* linked, or one linked while another is marked paid), then in every
\* interleaving the final totalDue reflects both: the value before, plus X,
\* plus Y or minus the amount paid.
C22_NoLostTotalDueUpdate ==
  (requests.pc = "ledgerRace" /\ requests.a.pc = "done" /\ requests.b.pc = "done") =>
    cardStatements[1].totalDue =
      requests.before + requests.a.amount
        + (IF requests.b.op = "link" THEN requests.b.amount ELSE 0 - requests.b.amount)

(***************************************************************************)
(* DELETE /api/expenses/:id of a card bill, storage call by storage call:  *)
(* any call may throw, the handler's catch answers 500.                    *)
(***************************************************************************)
DeleteMonth == <<2025, 12>>
DeleteAmounts == {5000, 45000}
OtherAmount == 32000

\* The tables before the request: expense 1 is a card bill linked to the
\* December statement of card 1, pending or paid; a second pending card bill
\* may be linked to the same statement, and cash may have been taken out.
InitDelete ==
  /\ \E status \in {"pending", "done"}, amount \in DeleteAmounts, other \in BOOLEAN,
        cashOut \in BOOLEAN :
       /\ budgets = updateBudgetBalanceUsed(createBudget(<< >>, 1, DeleteMonth), 1,
                                            IF cashOut THEN 5000 ELSE 0)
       /\ incomes = IF cashOut
                    THEN << IncomeRow(1, 1, CashOutLabel(creditCards[1].nickname),
                                      5000, FALSE, "done") >>
                    ELSE << >>
       /\ expenses =
            << UpdateStatus(<< ExpenseRow(1, 1, <<"Rent">>, amount, FALSE, "CARD_BILL",
                                          1, NoId) >>, 1, status)[1] >>
            \o (IF other
                THEN << ExpenseRow(2, 1, <<"Rent">>, OtherAmount, FALSE, "CARD_BILL",
                                   1, NoId) >>
                ELSE << >>)
       /\ cardStatements =
            << [NewStatement(1, creditCards[1], DeleteMonth) EXCEPT
                  !.totalDue = (IF status = "pending" THEN amount ELSE 0)
                               + (IF other THEN OtherAmount ELSE 0),
                  !.status = status,
                  !.paidDate = IF status = "done" THEN Today ELSE Null] >>
       /\ nextId = [budget |-> 2, income |-> IF cashOut THEN 2 ELSE 1,
                    expense |-> IF other THEN 3 ELSE 2, statement |-> 2]
       /\ requests =
            [pc |-> "delete", step |-> "getExpenseById",
             expenseStatus |-> "none", amount |-> 0, currentTotalDue |-> 0,
             others |-> 0, statement |-> cardStatements[1], balanceUsed |-> budgets[1].balanceUsed]
  /\ last = [op |-> "none", code |-> 0]
  /\ ledgerRun = NoLedgerRun
  /\ cashRun = NoCashRun
  /\ client = NoClient

\* const expense = await storage.getExpenseById(id)
DeleteGetExpense ==
  /\ requests.pc = "delete" /\ requests.step = "getExpenseById"
  /\ requests' = [requests EXCEPT !.step = "getCardStatementById",
                                  !.expenseStatus = expenses[1].status,
                                  !.amount = expenses[1].amount]
  /\ UNCHANGED <<tables, nextId, last>>
  /\ RaceFrame

\* const statement = await storage.getCardStatementById(expense.linkedCardStatementId)
DeleteGetCardStatement ==
  /\ requests.pc = "delete" /\ requests.step = "getCardStatementById"
  /\ requests' = [requests EXCEPT !.step = "updateCardStatement",
                                  !.currentTotalDue = cardStatements[1].totalDue]
  /\ UNCHANGED <<tables, nextId, last>>
  /\ RaceFrame

\* the first updateCardStatement: totalDue for a pending expense, status and
\* paidDate for a paid one
DeleteUpdateCardStatement ==
  /\ requests.pc = "delete" /\ requests.step = "updateCardStatement"
  /\ cardStatements' =
       IF requests.expenseStatus = "pending"
       THEN [cardStatements EXCEPT
               ![1].totalDue = UnlinkedTotalDue(requests.currentTotalDue, requests.amount)]
       ELSE [cardStatements EXCEPT ![1].status = "pending", ![1].paidDate = Null]
  /\ requests' = [requests EXCEPT
                    !.step = IF requests.expenseStatus = "pending"
                             THEN "getExpenses" ELSE "updateBudgetBalanceUsed"]
  /\ UNCHANGED <<budgets, incomes, expenses, nextId, last>>
  /\ RaceFrame

\* await storage.updateBudgetBalanceUsed(budget[0].id, '0')
DeleteUpdateBudgetBalanceUsed ==
  /\ requests.pc = "delete" /\ requests.step = "updateBudgetBalanceUsed"
  /\ budgets' = updateBudgetBalanceUsed(budgets, expenses[1].budgetId, 0)
  /\ requests' = [requests EXCEPT !.step = "getExpenses"]
  /\ UNCHANGED <<incomes, expenses, cardStatements, nextId, last>>
  /\ RaceFrame

\* const allExpenses = await storage.getExpenses(expense.budgetId), filtered
\* to the other card bills of the statement
DeleteGetExpenses ==
  /\ requests.pc = "delete" /\ requests.step = "getExpenses"
  /\ LET otherCardExpenses ==
           SelectSeq(OfBudget(expenses, 1), LAMBDA exp :
             exp.kind = "CARD_BILL" /\ exp.linkedCardStatementId = 1 /\ exp.id # 1)
     IN requests' = [requests EXCEPT
                       !.others = Len(otherCardExpenses),
                       !.step = IF Len(otherCardExpenses) = 0
                                THEN "resetCardStatement" ELSE "deleteExpense"]
  /\ UNCHANGED <<tables, nextId, last>>
  /\ RaceFrame

\* await storage.updateCardStatement(statement.id, {totalDue: '0', status:
\* 'pending', paidDate: null})
DeleteResetCardStatement ==
  /\ requests.pc = "delete" /\ requests.step = "resetCardStatement"
  /\ cardStatements' = [cardStatements EXCEPT
                          ![1].totalDue = 0, ![1].status = "pending", ![1].paidDate = Null]
  /\ requests' = [requests EXCEPT !.step = "deleteExpense"]
  /\ UNCHANGED <<budgets, incomes, expenses, nextId, last>>
  /\ RaceFrame

\* await storage.deleteExpense(id); res.json(...)
DeleteRow ==
  /\ requests.pc = "delete" /\ requests.step = "deleteExpense"
  /\ expenses' = DeleteById(expenses, 1)
  /\ requests' = [requests EXCEPT !.step = "done"]
  /\ last' = [op |-> "deleteExpense", code |-> 200]
  /\ UNCHANGED <<budgets, incomes, cardStatements, nextId>>
  /\ RaceFrame

\* The storage call about to be made throws: catch (error) { res.status(500) }
DeleteThrow ==
  /\ requests.pc = "delete" /\ requests.step # "done"
  /\ requests' = [requests EXCEPT !.step = "done"]
  /\ last' = [op |-> "deleteExpense", code |-> 500]
  /\ UNCHANGED <<tables, nextId>>
  /\ RaceFrame

NextDelete ==
  \/ DeleteGetExpense
  \/ DeleteGetCardStatement
  \/ DeleteUpdateCardStatement
  \/ DeleteUpdateBudgetBalanceUsed
  \/ DeleteGetExpenses
  \/ DeleteResetCardStatement
  \/ DeleteRow
  \/ DeleteThrow

SpecDelete == InitDelete /\ [][NextDelete]_vars

\* C23: deleting a card bill is all-or-nothing: when a storage call of the
\* deletion fails, either the expense row is gone (and its ledger effect
\* reversed), or the row is still there and neither the statement nor
\* balanceUsed has changed.
C23_DeleteAllOrNothing ==
  (requests.pc = "delete" /\ requests.step = "done") =>
    \/ IndexById(expenses, 1) = 0
    \/ /\ cardStatements[1] = requests.statement
       /\ budgets[1].balanceUsed = requests.balanceUsed

(***************************************************************************)
(* The ledger of one card over two months: the statement view of December  *)
(* offers the November and the December statement, and card bills of       *)
(* either month's budget can be linked to either.                          *)
(***************************************************************************)
UnlinkMonths == {<<2025, 11>>, <<2025, 12>>}

NextUnlink ==
  \/ GetCardStatements(1, <<2025, 12>>)
  \/ \E ym \in UnlinkMonths, l \in Labels, a \in Amounts, sid \in 1..MaxStatements :
       PostExpense(ym, l, a, FALSE, sid)
  \/ \E i \in 1..MaxExpenses, st \in {"pending", "done"} : PatchExpenseStatus(i, st)
  \/ \E i \in 1..MaxExpenses : DeleteExpense(i)

SpecUnlink == Init /\ [][NextUnlink]_vars

\* The card bills linked to the statement, in any budget, except one expense.
OtherLinked(rows, statementId, id) ==
  SelectSeq(rows, LAMBDA exp :
    exp.kind = "CARD_BILL" /\ exp.linkedCardStatementId = statementId /\ exp.id # id)

\* C24: deleting a card bill resets its statement to totalDue 0, PENDING and
\* no paid date when no other expense remains linked to the statement; when
\* another expense is still linked to it, in this or in another month's
\* budget, what the others contribute to totalDue is kept: totalDue drops by
\* the amount of the deleted expense if that was pending and not at all if
\* it was already paid.
C24_DeleteKeepsOtherContributions ==
  [][\A i \in 1..MaxExpenses :
       (/\ DeleteExpense(i)
        /\ IndexById(expenses, i) # 0
        /\ expenses[IndexById(expenses, i)].kind = "CARD_BILL")
         => LET expense == expenses[IndexById(expenses, i)]
                si == IndexById(cardStatements, expense.linkedCardStatementId)
            IN IF OtherLinked(expenses, expense.linkedCardStatementId, i) = << >>
               THEN /\ cardStatements'[si].totalDue = 0
                    /\ cardStatements'[si].status = "pending"
                    /\ cardStatements'[si].paidDate = Null
               ELSE cardStatements'[si].totalDue =
                      cardStatements[si].totalDue
                        - (IF expense.status = "pending" THEN expense.amount ELSE 0)]_vars

(***************************************************************************)
(* PATCH /api/incomes/:id, DELETE /api/incomes/:id, PATCH /api/expenses/:id *)
(***************************************************************************)
\* updateExpense(id, {label, amount, recurring})
updateExpense(rows, id, label, amount, recurring) ==
  [i \in DOMAIN rows |->
     IF rows[i].id = id
     THEN [rows[i] EXCEPT !.label = label, !.amount = amount, !.recurring = recurring]
     ELSE rows[i]]

\* The income is updated by its id alone, and nothing else changes.
PatchIncome(id, source, amount, recurring) ==
  /\ incomes' = updateIncome(incomes, id, source, amount, recurring)
  /\ UNCHANGED <<budgets, expenses, cardStatements, nextId>>
  /\ Served("patchIncome", 200)
  /\ ledgerRun' = NoLedgerRun
  /\ cashRun' = NoCashRun

\* The income is deleted by its id alone, and nothing else changes.
DeleteIncome(id) ==
  /\ incomes' = DeleteById(incomes, id)
  /\ UNCHANGED <<budgets, expenses, cardStatements, nextId>>
  /\ Served("deleteIncome", 200)
  /\ ledgerRun' = NoLedgerRun
  /\ cashRun' = NoCashRun

\* The expense is updated by its id alone, and nothing else changes.
PatchExpense(id, label, amount, recurring) ==
  /\ expenses' = updateExpense(expenses, id, label, amount, recurring)
  /\ UNCHANGED <<budgets, incomes, cardStatements, nextId>>
  /\ Served("patchExpense", 200)
  /\ ledgerRun' = NoLedgerRun
  /\ cashRun' = NoCashRun

(***************************************************************************)
(* Two users: the requests are made by userId while the tables already     *)
(* hold a budget, an income, a card bill and a card statement of another   *)
(* user.                                                                   *)
(***************************************************************************)
otherUserId == userId + 1

\* A card of the other user; it is no row of getCards(userId).
otherCard == [id |-> 3, nickname |-> "Meezan", statementDay |-> 10, dueDay |-> 30,
              dayDifference |-> 20, totalLimit |-> 100000]

IsolationMonth == <<2025, 12>>

InitIsolation ==
  /\ budgets = << [id |-> 1, userId |-> otherUserId, year |-> 2025, month |-> 12,
                   balanceUsed |-> 0] >>
  /\ incomes = << IncomeRow(1, 1, <<"Salary">>, 180000, FALSE, "pending") >>
  /\ expenses = << ExpenseRow(1, 1, <<"JS Bank">>, 45000, FALSE, "CARD_BILL", 1, NoId) >>
  /\ cardStatements = << [NewStatement(1, otherCard, IsolationMonth)
                            EXCEPT !.totalDue = 45000] >>
  /\ nextId = [budget |-> 2, income |-> 2, expense |-> 2, statement |-> 2]
  /\ last = [op |-> "none", code |-> 0]
  /\ ledgerRun = NoLedgerRun
  /\ cashRun = NoCashRun
  /\ client = NoClient
  /\ requests = NoRequests

NextIsolation ==
  \/ \E i \in 1..MaxIncomes, st \in {"pending", "done"} : PatchIncomeStatus(i, st)
  \/ \E i \in 1..MaxIncomes, s \in Sources, a \in MonthAmounts :
       PatchIncome(i, s, a, FALSE)
  \/ \E i \in 1..MaxIncomes : DeleteIncome(i)
  \/ \E l \in Labels, a \in MonthAmounts :
       PostExpense(IsolationMonth, l, a, FALSE, 1)
  \/ \E i \in 1..MaxExpenses, st \in {"pending", "done"} : PatchExpenseStatus(i, st)
  \/ \E i \in 1..MaxExpenses, l \in Labels, a \in MonthAmounts :
       PatchExpense(i, l, a, FALSE)
  \/ \E i \in 1..MaxExpenses : DeleteExpense(i)

SpecIsolation == InitIsolation /\ [][NextIsolation]_vars

\* C25: a request of one user that names an income, an expense or a card
\* statement of another user leaves the other user's rows as they were: the
\* other user's budgets, incomes and expenses and the statements of the
\* other user's cards never change under the requests of userId.
C25_OtherUsersRowsUnchanged ==
  [][/\ SelectSeq(budgets', LAMBDA b : b.userId = otherUserId)
          = SelectSeq(budgets, LAMBDA b : b.userId = otherUserId)
     /\ SelectSeq(incomes', LAMBDA r : r.id = 1) = SelectSeq(incomes, LAMBDA r : r.id = 1)
     /\ SelectSeq(expenses', LAMBDA r : r.id = 1) = SelectSeq(expenses, LAMBDA r : r.id = 1)
     /\ SelectSeq(cardStatements', LAMBDA s : s.cardId = otherCard.id)
          = SelectSeq(cardStatements, LAMBDA s : s.cardId = otherCard.id)]_vars

(***************************************************************************)
(* balanceUsed and the cash-out incomes of a month, under every handler    *)
(* that writes either of them.                                             *)
(***************************************************************************)
\* The request bodies: plans of one withdrawal from the first card.
SinglePlans == {<<[cardId |-> 1, amount |-> a]>> : a \in WithdrawalAmounts}

\* The edit form sends the row's own source with the new amount.
PatchIncomeAmount(id, amount) ==
  /\ IndexById(incomes, id) # 0
  /\ PatchIncome(id, incomes[IndexById(incomes, id)].source, amount, FALSE)

NextBalanceUsed ==
  \/ \E ym \in LedgerMonths, w \in SinglePlans : ApplyCashOut(ym, w)
  \/ \E ym \in LedgerMonths : ResetCashOut(ym)
  \/ \E i \in 1..MaxIncomes, a \in MonthAmounts : PatchIncomeAmount(i, a)
  \/ \E i \in 1..MaxIncomes : DeleteIncome(i)
  \/ \E ym \in LedgerMonths : GetCardStatements(1, ym)
  \/ \E ym \in LedgerMonths, l \in Labels, a \in MonthAmounts :
       PostExpense(ym, l, a, FALSE, 1)
  \/ \E i \in 1..MaxExpenses, st \in {"pending", "done"} : PatchExpenseStatus(i, st)
  \/ \E i \in 1..MaxExpenses : DeleteExpense(i)

SpecBalanceUsed == Init /\ [][NextBalanceUsed]_vars

\* C26: the balanceUsed of every budget equals the sum of the amounts of the
\* budget's incomes whose source starts with "Cash-out -", and so is 0
\* exactly when the budget has no such income.
C26_BalanceUsedIsCashOutSum ==
  \A i \in DOMAIN budgets :
    budgets[i].balanceUsed =
      SumAmounts(SelectSeq(OfBudget(incomes, budgets[i].id), LAMBDA inc :
                   StartsWith(inc.source, CashOutPrefix)))

\* C27: a card statement whose status is DONE has no PENDING card bill
\* linked to it.
C27_DoneStatementHasNoPendingBill ==
  \A i \in DOMAIN cardStatements :
    cardStatements[i].status = "done" =>
      \A j \in DOMAIN expenses :
        (expenses[j].kind = "CARD_BILL"
           /\ expenses[j].linkedCardStatementId = cardStatements[i].id)
          => expenses[j].status # "pending"

\* C28: recurring items reach every later month: for each recurring income
\* and each recurring REGULAR expense of a month and each existing later
\* budget of the user, the later budget holds a recurring row with the same
\* source or label, however the later budget came to exist.
C28_RecurringItemsInEveryLaterMonth ==
  \A m \in ViewMonths, later \in ViewMonths :
    (m[1] * 12 + m[2] < later[1] * 12 + later[2] /\ getBudget(budgets, later) # 0)
      => /\ \A i \in DOMAIN RowsOfMonth(incomes, m) :
              RowsOfMonth(incomes, m)[i].recurring
                => \E j \in DOMAIN RowsOfMonth(incomes, later) :
                     /\ RowsOfMonth(incomes, later)[j].source
                          = RowsOfMonth(incomes, m)[i].source
                     /\ RowsOfMonth(incomes, later)[j].recurring
         /\ \A i \in DOMAIN RowsOfMonth(expenses, m) :
              (RowsOfMonth(expenses, m)[i].recurring
                 /\ RowsOfMonth(expenses, m)[i].kind = "REGULAR")
                => \E j \in DOMAIN RowsOfMonth(expenses, later) :
                     /\ RowsOfMonth(expenses, later)[j].label
                          = RowsOfMonth(expenses, m)[i].label
                     /\ RowsOfMonth(expenses, later)[j].recurring

(***************************************************************************)
(* The need of a month that holds expenses of every kind: the card bills   *)
(* and regular expenses posted to it and the loan installment create-next  *)
(* puts into it.                                                           *)
(***************************************************************************)
NeedMonth == <<2025, 12>>

NextNeed ==
  \/ CreateNext(PrevMonth(NeedMonth))
  \/ GetCardStatements(1, NeedMonth)
  \/ \E s \in Sources, a \in IncomeAmounts :
       nextId.income <= MaxTotalsIncomes /\ PostIncome(NeedMonth, s, a, FALSE)
  \/ \E i \in 1..MaxTotalsIncomes, st \in {"pending", "done"} : PatchIncomeStatus(i, st)
  \/ \E l \in Labels, a \in NonCardAmounts : PostExpense(NeedMonth, l, a, FALSE, NoId)
  \/ \E l \in Labels, a \in CardBillAmounts, sid \in 1..MaxStatements :
       PostExpense(NeedMonth, l, a, FALSE, sid)
  \/ \E i \in 1..(MaxExpenses + Len(loans)), st \in {"pending", "done"} :
       PatchExpenseStatus(i, st)

SpecNeed == Init /\ [][NextNeed]_vars

\* The step is a served status request that moved the i-th expense row from
\* one status to the other and left the incomes as they were.
ExpenseMoved(i, from, to) ==
  /\ last' = [op |-> "patchExpenseStatus", code |-> 200]
  /\ Len(expenses') = Len(expenses)
  /\ expenses[i].status = from /\ expenses'[i].status = to
  /\ incomes' = incomes

\* C29: need is the same before and after toggling any single expense of
\* the month, a card bill, a regular expense or a loan installment, between
\* pending and done while the incomes stay as they are.
C29_NeedIgnoresExpenseStatus ==
  [][\A i \in DOMAIN expenses :
       (ExpenseMoved(i, "pending", "done") \/ ExpenseMoved(i, "done", "pending"))
         => need(IncomesWithAfter(i), ExpensesWithAfter(i)) =
              need(IncomesWith(i), ExpensesWith(i))]_vars

\* C29 happens: with a need above 0 in the month, a loan installment was
\* marked done beside a pending card bill.
C29_Witness ==
  /\ last = [op |-> "patchExpenseStatus", code |-> 200]
  /\ \E i \in DOMAIN expenses :
       /\ expenses[i].kind = "LOAN" /\ expenses[i].status = "done"
       /\ \E j \in DOMAIN ExpensesWith(i) :
            ExpensesWith(i)[j].kind = "CARD_BILL" /\ ExpensesWith(i)[j].status = "pending"
       /\ need(IncomesWith(i), ExpensesWith(i)) > 0

(***************************************************************************)
(* Covering the need of a month with a cash-out plan, and resetting it.    *)
(***************************************************************************)
\* The request bodies the planner sends: every withdrawal is positive.
PositivePlans == {w \in Plans : \A i \in DOMAIN w : w[i].amount > 0}

NextRecover ==
  \/ \E ym \in LedgerMonths, l \in Labels, a \in MonthAmounts :
       PostExpense(ym, l, a, FALSE, NoId)
  \/ \E i \in 1..MaxIncomes, st \in {"pending", "done"} : PatchIncomeStatus(i, st)
  \/ \E ym \in LedgerMonths, w \in PositivePlans : ApplyCashOut(ym, w)
  \/ \E ym \in LedgerMonths : ResetCashOut(ym)

SpecRecover == Init /\ [][NextRecover]_vars

\* The need the totals of the month show, before and after the step.
NeedOf(ym) == need(RowsOfMonth(incomes, ym), RowsOfMonth(expenses, ym))
NeedAfter(ym) ==
  LET i == getBudget(budgets', ym)
  IN IF i = 0 THEN 0
     ELSE need(OfBudget(incomes', budgets'[i].id), OfBudget(expenses', budgets'[i].id))
\* The need of the month as it was before its cash-out incomes were added.
NeedBeforeCashOut(ym) ==
  need(SelectSeq(RowsOfMonth(incomes, ym), LAMBDA inc :
         ~StartsWith(inc.source, CashOutPrefix)),
       RowsOfMonth(expenses, ym))

\* C30: when a month has need N > 0 and a plan whose withdrawals sum to
\* exactly N is applied, the totals read next show need 0; and when the plan
\* just applied was the month's first and summed to the need N the month had
\* before it, a reset of the plan brings the need back to N.
C30_PlanCoversNeedAndResetRestores ==
  [][\A ym \in LedgerMonths :
       /\ \A w \in PositivePlans :
            (/\ ApplyCashOut(ym, w)
             /\ NeedOf(ym) > 0
             /\ SumSeq([i \in DOMAIN w |-> w[i].amount]) = NeedOf(ym))
              => NeedAfter(ym) = 0
       /\ (/\ ResetCashOut(ym)
           /\ cashRun.stage = "applying" /\ cashRun.ym = ym /\ cashRun.n = 1
           /\ NeedBeforeCashOut(ym) > 0
           /\ SumSeq([c \in 1..Len(creditCards) |-> cashRun.applied[creditCards[c].id]])
                = NeedBeforeCashOut(ym))
            => NeedAfter(ym) = NeedBeforeCashOut(ym)]_vars
=============================================================================
